---- MODULE Spec2Model ----
(***************************************************************************)
(* Patrol orchestration of the Temi control application:                   *)
(*   PatrolManager            - one patrol run of one robot, with its      *)
(*                              run-loop worker thread                      *)
(*   MultiRobotPatrolManager  - the registry  robot id -> PatrolManager    *)
(* Threads interleave at the reads and writes of the fields they share:    *)
(* the run-loop worker takes no lock, stop(), pause() and resume() take    *)
(* PatrolManager.lock, the event handlers take none.  A step that          *)
(* publishes a command or emits an event is recognised by its action.      *)
(***************************************************************************)
EXTENDS Integers, Sequences, FiniteSets, TLC

\* ------------------------------------------------------------------ bounds
MaxWaypoints == 2     \* longest route
MaxLoops == 3         \* loops an infinite route is followed for
MaxStops == 2         \* stop() calls on one instance
MaxRetries == 2       \* largest waypoint_max_retries setting
MaxMsgs == 4          \* summary and counts messages processed
MaxCount == 7         \* largest raw count handed to _clamp_violations
MaxObs == 3           \* observations given to the debouncer for one patrol
MaxTime == 4          \* seconds the clock runs for
MaxAttempts == 3      \* connection attempts of one link
MaxStarts == 2        \* start() calls that end with an error event
MaxPolls == 2         \* violating polls of one gate that are counted

Null == -1000         \* Python's None where an integer is expected
NoEntry == 0          \* no PatrolManager: dict.get() returned None
NoWaypoint == 0       \* current_waypoint is None

OrchIds == {1, 2}
Robots == {1}

\* ------------------------------------------------------------------ state
VARIABLES
  \* PatrolManager fields, per instance
  robot_id,               \* 0: instance not constructed
  route,                  \* [n, loop_count, dwell]
  on_complete,            \* "registry": MultiRobotPatrolManager._on_complete
  state,
  current_waypoint_index,
  current_waypoint,       \* NoWaypoint or the waypoint (1-based)
  is_paused,
  stop_requested,
  current_loop,
  is_low_battery,
  return_after_current,
  waiting_for_arrival,
  \* settings
  low_battery_action,
  waypoint_max_retries,
  \* run-loop worker (patrol_thread): position and locals
  wpc,
  keep_looping,
  retry_count,
  dwell_i,
  \* a caller inside stop(), holding PatrolManager.lock
  apiPc,
  \* the message thread inside update_battery_level()
  evPc,
  \* MultiRobotPatrolManager
  patrols,                \* robot id -> instance or NoEntry
  regPc,                  \* holder of MultiRobotPatrolManager.lock
  regOrch,
  \* observations
  wpGotos,                \* gotos published for the waypoint in progress
  stopResults,            \* return values of the stop() calls, in order
  stopCmds,               \* stop-movement commands published by stop()
  completeEvents,         \* completion events emitted
  exhausted,              \* the arrival retries of some waypoint ran out
  lb_preempt,             \* a low-battery update that came during the
                          \* arrival wait: "no"; stop_immediately: "handling",
                          \* "returned"; complete_current: "deferred"
  sp_refused,             \* why start_patrol calls returned False
  late_insert,            \* start_patrol inserted the instance when its
                          \* worker was already at the completion callback
  \* app.py: the aggregate detection state and the smoothing stage
  yolo_state,             \* [total_violations, total_people]
  violation_history,      \* robot id -> the smoothing window (a deque)
  violation_ema,          \* robot id -> Null or the EMA, scaled by EmaScale
  yolo_msgs,              \* messages processed so far
  \* _clamp_violations applied to one pair of raw inputs
  clamp_args,
  clamp_result,
  \* the wall clock, in seconds
  now,
  \* violation_debouncer.py: ViolationDebouncer
  debouncer_history,      \* self.violation_history: patrol id -> deque
  violation_threshold,    \* self.config['violation_threshold']
  deb_result,             \* patrol id -> what the last call returned
  obs_count,              \* patrol id -> add_violation_observation calls
  \* mqtt_manager.py: MQTTRobotClient fields, per link
  link_robot,             \* self.robot_id; 0: the object is not constructed
  client,                 \* 0: None; else the n-th mqtt.Client made for it
  connected,
  connecting,
  last_connect_attempt,   \* LongAgo: the initial 0.0
  loop_started,
  pending,                \* a CONNECT is on its way to the broker
  \* MQTTManager
  robot_clients,          \* robot id -> link or NoLink
  \* threads calling connect(), ensure_connected() or add_robot()
  cpc,                    \* position
  cctx,                   \* the call that connect() returns to
  clink,                  \* the link the call is on
  cres,                   \* the value in flight, then the returned value
  \* observations
  attempts,               \* link -> the times its attempts began
  confirmed,              \* link -> the broker has confirmed a connection
  add_failed,             \* links whose add_robot timed out
  \* PatrolManager: what start() and the waypoint actions leave behind
  error_events,           \* error events emitted by start()
  gate,                   \* the locals of _run_detection_gate and what it did
  cmd_failed,             \* a speech or display command of the waypoint
                          \* actions returned False
  last_event,             \* the last on_waypoint_event call: its arguments,
                          \* where the run was, and whether it emitted an
                          \* error event
  \* yolo_inspection_manager.py: one YoloInspectionPatrolManager
  insp,                   \* its fields, its worker's position and what it
                          \* published, emitted and recorded
  pipeline                \* what yolo_state_provider() returns

orchVars == <<state, current_waypoint_index, current_waypoint, is_paused,
              stop_requested, current_loop, is_low_battery,
              return_after_current, waiting_for_arrival>>
confVars == <<robot_id, route, on_complete, low_battery_action,
              waypoint_max_retries>>
workVars == <<wpc, keep_looping, retry_count, dwell_i>>
regVars == <<patrols, regPc, regOrch>>
obsVars == <<wpGotos, stopResults, stopCmds, completeEvents, exhausted,
             lb_preempt, sp_refused, late_insert>>
patrolVars == <<orchVars, confVars, workVars, apiPc, evPc, regVars, obsVars>>
yoloVars == <<yolo_state, violation_history, violation_ema, yolo_msgs>>
clampVars == <<clamp_args, clamp_result>>
\* what the patrol classes do not touch
debVars == <<debouncer_history, violation_threshold, deb_result, obs_count>>
linkVars == <<link_robot, client, connected, connecting, last_connect_attempt,
              loop_started, pending, robot_clients, cpc, cctx, clink, cres,
              attempts, confirmed, add_failed>>
runVars == <<error_events, gate, cmd_failed, last_event>>
inspVars == <<insp, pipeline>>
extVars == <<yoloVars, clampVars, now, debVars, linkVars, runVars, inspVars>>
vars == <<patrolVars, extVars>>

\* ------------------------------------------------------------ route data
\* PatrolManager.__init__: loop_count = int(raw) if raw is not None else 1
LoopCountOf(raw) == IF raw = Null THEN 1 ELSE raw

loop_count(o) == LoopCountOf(route[o].loop_count)

IsInfiniteMutant(lc) == lc < 0
\* PatrolManager.__init__: self.is_infinite_loop = self.loop_count <= 0
IsInfinite(lc) == lc <= 0

is_infinite_loop(o) == IsInfinite(loop_count(o))

\* PatrolManager.__init__: len(route.get('waypoints', []))
total_waypoints(o) == route[o].n

\* _emit_status_update: 'total_loops'
total_loops(o) == IF is_infinite_loop(o) THEN -1 ELSE loop_count(o)

\* a route: its length, its loop_count, the dwell_time of each waypoint and
\* what the waypoint records hold (the same for every waypoint of a route):
\* detection_enabled, violation_action, and whether there is a tts_message
\* and a display_type with display_content
NoRoute ==
  [n |-> 0, loop_count |-> Null, dwell |-> <<>>, detection_enabled |-> FALSE,
   violation_action |-> "none", tts_message |-> FALSE, display |-> FALSE]

Set(f, o, v) == [f EXCEPT ![o] = v]

\* no gate has run, no start() has failed
NoGate ==
  [start_time |-> 0, no_violation_start |-> Null, violations_seen |-> FALSE,
   action_taken |-> "None", notes |-> {}, ended_by |-> "none",
   actions |-> 0, seen_polls |-> 0, noted_at |-> 0, summaries |-> 0]

\* ------------------------------------------------- the run-loop worker
\* _patrol_loop: current_loop = 1; keep_looping = True
W_Begin(o) ==
  /\ wpc[o] = "begin"
  /\ current_loop' = Set(current_loop, o, 1)
  /\ keep_looping' = Set(keep_looping, o, TRUE)
  /\ wpc' = Set(wpc, o, "outer")
  /\ UNCHANGED extVars
  /\ UNCHANGED <<state, current_waypoint_index, current_waypoint, is_paused,
                 stop_requested, is_low_battery, return_after_current,
                 waiting_for_arrival, retry_count, dwell_i,
                 confVars, apiPc, evPc, regVars, obsVars>>

\* while keep_looping and not self.stop_requested
W_Outer(o) ==
  /\ wpc[o] = "outer"
  /\ wpc' = Set(wpc, o, IF keep_looping[o] /\ ~stop_requested[o]
                         THEN "reset" ELSE "finish")
  /\ UNCHANGED extVars
  /\ UNCHANGED <<orchVars, keep_looping, retry_count, dwell_i,
                 confVars, apiPc, evPc, regVars, obsVars>>

\* self.current_waypoint_index = 0
W_Reset(o) ==
  /\ wpc[o] = "reset"
  /\ current_waypoint_index' = Set(current_waypoint_index, o, 0)
  /\ wpc' = Set(wpc, o, "inner")
  /\ UNCHANGED extVars
  /\ UNCHANGED <<state, current_waypoint, is_paused, stop_requested,
                 current_loop, is_low_battery, return_after_current,
                 waiting_for_arrival, keep_looping, retry_count, dwell_i,
                 confVars, apiPc, evPc, regVars, obsVars>>

\* while not self.stop_requested and index < total_waypoints
W_Inner(o) ==
  /\ wpc[o] = "inner"
  /\ wpc' = Set(wpc, o, IF ~stop_requested[o]
                            /\ current_waypoint_index[o] < total_waypoints(o)
                         THEN "chk_pause" ELSE "loop_done")
  /\ UNCHANGED extVars
  /\ UNCHANGED <<orchVars, keep_looping, retry_count, dwell_i,
                 confVars, apiPc, evPc, regVars, obsVars>>

\* if self.is_paused: time.sleep(0.5); continue
\* self.current_waypoint = waypoint
W_ChkPause(o) ==
  /\ wpc[o] = "chk_pause"
  /\ IF is_paused[o]
     THEN /\ wpc' = Set(wpc, o, "inner")
          /\ UNCHANGED current_waypoint
     ELSE /\ wpc' = Set(wpc, o, "exec_goto")
          /\ current_waypoint' =
               Set(current_waypoint, o, current_waypoint_index[o] + 1)
  /\ UNCHANGED extVars
  /\ UNCHANGED <<state, current_waypoint_index, is_paused, stop_requested,
                 current_loop, is_low_battery, return_after_current,
                 waiting_for_arrival, keep_looping, retry_count, dwell_i,
                 confVars, apiPc, evPc, regVars, obsVars>>

\* _execute_waypoint: self.mqtt_client.goto_waypoint(waypoint_name)
W_ExecGoto(o) ==
  /\ wpc[o] = "exec_goto"
  /\ wpGotos' = Set(wpGotos, o, 1)
  /\ wpc' = Set(wpc, o, "exec_wait")
  /\ UNCHANGED extVars
  /\ UNCHANGED <<orchVars, keep_looping, retry_count, dwell_i,
                 confVars, apiPc, evPc, regVars, stopResults, stopCmds,
                 completeEvents, exhausted, lb_preempt, sp_refused,
                 late_insert>>

\* _execute_waypoint: self.waiting_for_arrival = True
W_ExecWait(o) ==
  /\ wpc[o] = "exec_wait"
  /\ waiting_for_arrival' = Set(waiting_for_arrival, o, TRUE)
  /\ wpc' = Set(wpc, o, "exec_state")
  /\ UNCHANGED extVars
  /\ UNCHANGED <<state, current_waypoint_index, current_waypoint, is_paused,
                 stop_requested, current_loop, is_low_battery,
                 return_after_current, keep_looping, retry_count, dwell_i,
                 confVars, apiPc, evPc, regVars, obsVars>>

\* _execute_waypoint: self.state = WAITING; self._emit_status_update()
\* _wait_for_waypoint_completion: retry_count = 0;
\*   while retry_count <= max_retries
W_ExecState(o) ==
  /\ wpc[o] = "exec_state"
  /\ state' = Set(state, o, "waiting")
  /\ retry_count' = Set(retry_count, o, 0)
  /\ wpc' = Set(wpc, o, "wait")
  /\ UNCHANGED extVars
  /\ UNCHANGED <<current_waypoint_index, current_waypoint, is_paused,
                 stop_requested, current_loop, is_low_battery,
                 return_after_current, waiting_for_arrival, keep_looping,
                 dwell_i, confVars, apiPc, evPc, regVars, obsVars>>

CanRetryMutant(rc, max_retries) == rc <= max_retries
\* if elapsed > timeout: if retry_count < max_retries
CanRetry(rc, max_retries) == rc < max_retries

\* one turn of  while self.waiting_for_arrival and not self.stop_requested:
\* leave the loop; or, when not paused, find elapsed > timeout and either
\* start a retry or give up (the clock is not modelled: the timeout may have
\* elapsed at any turn; a turn that only sleeps changes nothing)
W_Wait(o) ==
  /\ wpc[o] = "wait"
  /\ IF ~(waiting_for_arrival[o] /\ ~stop_requested[o])
     THEN /\ wpc' = Set(wpc, o, "after_wait")
          /\ UNCHANGED retry_count
     ELSE /\ ~is_paused[o]
          /\ IF CanRetry(retry_count[o], waypoint_max_retries)
             THEN /\ retry_count' = Set(retry_count, o, retry_count[o] + 1)
                  /\ wpc' = Set(wpc, o, "retry_goto")
             ELSE /\ wpc' = Set(wpc, o, "exhaust")
                  /\ UNCHANGED retry_count
  /\ UNCHANGED extVars
  /\ UNCHANGED <<orchVars, keep_looping, dwell_i,
                 confVars, apiPc, evPc, regVars, obsVars>>

\* retry: self.mqtt_client.goto_waypoint(waypoint_name)
W_RetryGoto(o) ==
  /\ wpc[o] = "retry_goto"
  /\ wpGotos' = Set(wpGotos, o, wpGotos[o] + 1)
  /\ wpc' = Set(wpc, o, "retry_wait")
  /\ UNCHANGED extVars
  /\ UNCHANGED <<orchVars, keep_looping, retry_count, dwell_i,
                 confVars, apiPc, evPc, regVars, stopResults, stopCmds,
                 completeEvents, exhausted, lb_preempt, sp_refused,
                 late_insert>>

\* retry: self.waiting_for_arrival = True; break
W_RetryWait(o) ==
  /\ wpc[o] = "retry_wait"
  /\ waiting_for_arrival' = Set(waiting_for_arrival, o, TRUE)
  /\ wpc' = Set(wpc, o, "after_wait")
  /\ UNCHANGED extVars
  /\ UNCHANGED <<state, current_waypoint_index, current_waypoint, is_paused,
                 stop_requested, current_loop, is_low_battery,
                 return_after_current, keep_looping, retry_count, dwell_i,
                 confVars, apiPc, evPc, regVars, obsVars>>

\* retries used up: self._emit_error(...);
\*   self.waiting_for_arrival = False; return
W_Exhaust(o) ==
  /\ wpc[o] = "exhaust"
  /\ waiting_for_arrival' = Set(waiting_for_arrival, o, FALSE)
  /\ exhausted' = Set(exhausted, o, TRUE)
  /\ wpc' = Set(wpc, o, "advance")
  /\ UNCHANGED extVars
  /\ UNCHANGED <<state, current_waypoint_index, current_waypoint, is_paused,
                 stop_requested, current_loop, is_low_battery,
                 return_after_current, keep_looping, retry_count, dwell_i,
                 confVars, apiPc, evPc, regVars, wpGotos, stopResults,
                 stopCmds, completeEvents, lb_preempt, sp_refused,
                 late_insert>>

\* _execute_waypoint_actions: what comes after the arrival delay, the gate
\* or a command: if waypoint.get('detection_enabled'): the gate; if
\* tts_message: speak_tts; if display_type and display_content: the display
\* command; then the dwell
NextStage(o, after) ==
  IF after = "arrival" /\ route[o].detection_enabled THEN "gate_begin"
  ELSE IF after \in {"arrival", "gate"} /\ route[o].tts_message THEN "tts"
  ELSE IF after \in {"arrival", "gate", "tts"} /\ route[o].display
  THEN "display"
  ELSE "actions"

\* if not self.waiting_for_arrival or self.stop_requested: break
\* (else the next turn of the retry loop); if self.stop_requested: return
W_AfterWait(o) ==
  /\ wpc[o] = "after_wait"
  /\ wpc' = Set(wpc, o, IF stop_requested[o] THEN "advance"
                         ELSE IF ~waiting_for_arrival[o]
                         THEN NextStage(o, "arrival")
                         ELSE "wait")
  /\ UNCHANGED extVars
  /\ UNCHANGED <<orchVars, keep_looping, retry_count, dwell_i,
                 confVars, apiPc, evPc, regVars, obsVars>>

\* _execute_waypoint_actions, after the commands:
\*   dwell_time = waypoint.get('dwell_time', 5); if dwell_time > 0: ...
\* a NULL dwell_time makes the comparison raise TypeError, which
\* _patrol_loop catches
W_Actions(o) ==
  /\ wpc[o] = "actions"
  /\ LET d == route[o].dwell[current_waypoint_index[o] + 1] IN
       IF d = Null
       THEN /\ wpc' = Set(wpc, o, "err_state")
            /\ UNCHANGED dwell_i
       ELSE /\ wpc' = Set(wpc, o, IF d > 0 THEN "dwell_loop" ELSE "chk_return")
            /\ dwell_i' = Set(dwell_i, o, d * 2)
  /\ UNCHANGED extVars
  /\ UNCHANGED <<orchVars, keep_looping, retry_count,
                 confVars, apiPc, evPc, regVars, obsVars>>

\* for i in range(int(dwell_time * 2)):
\*   if self.stop_requested: break
\*   time.sleep(0.5)
W_DwellLoop(o) ==
  /\ wpc[o] = "dwell_loop"
  /\ IF dwell_i[o] = 0 \/ stop_requested[o]
     THEN /\ wpc' = Set(wpc, o, "chk_return")
          /\ dwell_i' = Set(dwell_i, o, 0)
     ELSE /\ dwell_i' = Set(dwell_i, o, dwell_i[o] - 1)
          /\ UNCHANGED wpc
  /\ UNCHANGED extVars
  /\ UNCHANGED <<orchVars, keep_looping, retry_count,
                 confVars, apiPc, evPc, regVars, obsVars>>

\* if self.return_after_current:
W_ChkReturn(o) ==
  /\ wpc[o] = "chk_return"
  /\ wpc' = Set(wpc, o, IF return_after_current[o] THEN "ret_goto" ELSE "advance")
  /\ UNCHANGED extVars
  /\ UNCHANGED <<orchVars, keep_looping, retry_count, dwell_i,
                 confVars, apiPc, evPc, regVars, obsVars>>

\* self._return_to_location("low_battery_complete")
W_RetGoto(o) ==
  /\ wpc[o] = "ret_goto"
  /\ wpc' = Set(wpc, o, "ret_stop")
  /\ UNCHANGED extVars
  /\ UNCHANGED <<orchVars, keep_looping, retry_count, dwell_i,
                 confVars, apiPc, evPc, regVars, obsVars>>

\* self.stop_requested = True
W_RetStop(o) ==
  /\ wpc[o] = "ret_stop"
  /\ stop_requested' = Set(stop_requested, o, TRUE)
  /\ wpc' = Set(wpc, o, "advance")
  /\ UNCHANGED extVars
  /\ UNCHANGED <<state, current_waypoint_index, current_waypoint, is_paused,
                 current_loop, is_low_battery, return_after_current,
                 waiting_for_arrival, keep_looping, retry_count, dwell_i,
                 confVars, apiPc, evPc, regVars, obsVars>>

\* self.current_waypoint_index += 1; self._emit_status_update()
W_Advance(o) ==
  /\ wpc[o] = "advance"
  /\ current_waypoint_index' =
       Set(current_waypoint_index, o, current_waypoint_index[o] + 1)
  /\ wpc' = Set(wpc, o, "inner")
  /\ UNCHANGED extVars
  /\ UNCHANGED <<state, current_waypoint, is_paused, stop_requested,
                 current_loop, is_low_battery, return_after_current,
                 waiting_for_arrival, keep_looping, retry_count, dwell_i,
                 confVars, apiPc, evPc, regVars, obsVars>>

\* keep_looping once the loop counter has been incremented to next_loop
KeepLooping(o, next_loop) == is_infinite_loop(o) \/ next_loop <= loop_count(o)

LoopCompletedMutant(stop) == TRUE
\* # Loop completed: if not self.stop_requested
LoopCompleted(stop) == ~stop

\* if not self.stop_requested: self.current_loop += 1; keep_looping = ...
\* (an infinite route is followed for MaxLoops loops)
W_LoopDone(o) ==
  /\ wpc[o] = "loop_done"
  /\ IF LoopCompleted(stop_requested[o])
     THEN /\ current_loop[o] <= MaxLoops
          /\ current_loop' = Set(current_loop, o, current_loop[o] + 1)
          /\ keep_looping' =
               Set(keep_looping, o, KeepLooping(o, current_loop[o] + 1))
     ELSE UNCHANGED <<current_loop, keep_looping>>
  /\ wpc' = Set(wpc, o, "outer")
  /\ UNCHANGED extVars
  /\ UNCHANGED <<state, current_waypoint_index, current_waypoint, is_paused,
                 stop_requested, is_low_battery, return_after_current,
                 waiting_for_arrival, retry_count, dwell_i,
                 confVars, apiPc, evPc, regVars, obsVars>>

PatrolCompleteMutant(stop) == TRUE
\* # Patrol complete: if not self.stop_requested
PatrolComplete(stop) == ~stop

\* if not self.stop_requested: ... ; otherwise the thread ends
W_Finish(o) ==
  /\ wpc[o] = "finish"
  /\ wpc' = Set(wpc, o, IF PatrolComplete(stop_requested[o])
                        THEN "fin_goto" ELSE "done")
  /\ UNCHANGED extVars
  /\ UNCHANGED <<orchVars, keep_looping, retry_count, dwell_i,
                 confVars, apiPc, evPc, regVars, obsVars>>

\* self._return_to_location("route_complete")
W_FinGoto(o) ==
  /\ wpc[o] = "fin_goto"
  /\ wpc' = Set(wpc, o, "fin_idle")
  /\ UNCHANGED extVars
  /\ UNCHANGED <<orchVars, keep_looping, retry_count, dwell_i,
                 confVars, apiPc, evPc, regVars, obsVars>>

\* self.state = PatrolState.IDLE
W_FinIdle(o) ==
  /\ wpc[o] = "fin_idle"
  /\ state' = Set(state, o, "idle")
  /\ wpc' = Set(wpc, o, "fin_emit")
  /\ UNCHANGED extVars
  /\ UNCHANGED <<current_waypoint_index, current_waypoint, is_paused,
                 stop_requested, current_loop, is_low_battery,
                 return_after_current, waiting_for_arrival, keep_looping,
                 retry_count, dwell_i, confVars, apiPc, evPc, regVars, obsVars>>

\* MultiRobotPatrolManager._on_complete: with self.lock:
\*   if robot_id in self.patrols: del self.patrols[robot_id]
OnComplete(r) == [patrols EXCEPT ![r] = NoEntry]

LockFreeMutant(pc) == TRUE
\* MultiRobotPatrolManager._on_complete: with self.lock: entered when no
\* start_patrol or stop_patrol call (at pc) holds the registry's lock
LockFree(pc) == pc = "free"

\* self._emit_complete(): the registry's _on_complete when the instance was
\* made by start_patrol, then the listener
W_FinEmit(o) ==
  /\ wpc[o] = "fin_emit"
  /\ IF on_complete[o] = "registry"
     THEN /\ LockFree(regPc)
          /\ patrols' = OnComplete(robot_id[o])
     ELSE UNCHANGED patrols
  /\ completeEvents' = Set(completeEvents, o, completeEvents[o] + 1)
  /\ wpc' = Set(wpc, o, "done")
  /\ UNCHANGED extVars
  /\ UNCHANGED <<orchVars, keep_looping, retry_count, dwell_i,
                 confVars, apiPc, evPc, regPc, regOrch, wpGotos, stopResults,
                 stopCmds, exhausted, lb_preempt, sp_refused,
                 late_insert>>

\* except Exception: self.state = PatrolState.ERROR
W_ErrState(o) ==
  /\ wpc[o] = "err_state"
  /\ state' = Set(state, o, "error")
  /\ wpc' = Set(wpc, o, "err_emit")
  /\ UNCHANGED extVars
  /\ UNCHANGED <<current_waypoint_index, current_waypoint, is_paused,
                 stop_requested, current_loop, is_low_battery,
                 return_after_current, waiting_for_arrival, keep_looping,
                 retry_count, dwell_i, confVars, apiPc, evPc, regVars, obsVars>>

\* except Exception: self._emit_error(str(e)), which reaches
\* MultiRobotPatrolManager._on_error (it forwards the event); the thread ends
W_ErrEmit(o) ==
  /\ wpc[o] = "err_emit"
  /\ wpc' = Set(wpc, o, "errored")
  /\ UNCHANGED extVars
  /\ UNCHANGED <<orchVars, keep_looping, retry_count, dwell_i,
                 confVars, apiPc, evPc, regVars, obsVars>>

\* a step of the worker that publishes a goto command
WorkerGoto(o) == W_ExecGoto(o) \/ W_RetryGoto(o) \/ W_RetGoto(o) \/ W_FinGoto(o)

\* a step of the worker that publishes the goto of a waypoint
WaypointGoto(o) == W_ExecGoto(o) \/ W_RetryGoto(o)

\* ----------------------------------- the worker: the waypoint actions
DetectionTimeout == 2      \* detection_timeout_seconds (30 by default)
NoViolationSeconds == 1    \* no_violation_seconds (5 by default)

\* what the run leaves unchanged when only the worker's position and the
\* records of the actions change
actionFrame == <<orchVars, keep_looping, retry_count, dwell_i, confVars,
                 apiPc, evPc, regVars, obsVars, yoloVars, clampVars, now,
                 debVars, linkVars, error_events, last_event, inspVars>>

\* _run_detection_gate: start_time = time.time(); no_violation_start = None;
\*   action_taken = None; violations_seen = False
W_GateBegin(o) ==
  /\ wpc[o] = "gate_begin"
  /\ gate' = Set(gate, o, [NoGate EXCEPT !.start_time = now])
  /\ wpc' = Set(wpc, o, "gate")
  /\ UNCHANGED <<actionFrame, cmd_failed>>

ActionResultMutant(action, ok) ==
  IF action = "none" \/ ~ok THEN "None" ELSE "ok"
\* _execute_violation_action: None for no action; else the command is
\* published and the result is '<action>_ok' or '<action>_failed'
ActionResult(action, ok) ==
  IF action = "none" THEN "None" ELSE IF ok THEN "ok" ELSE "failed"

TimedOutMutant(t, start_time) == t - start_time > DetectionTimeout
\* (time.time() - start_time) >= timeout
TimedOut(t, start_time) == t - start_time >= DetectionTimeout

GateLoopMutant(stop) == TRUE
\* while not self.stop_requested:
GateLoop(stop) == ~stop

\* one turn of  while not self.stop_requested:  with total_violations = v
\* in the snapshot and ok the result of publishing the response command
W_GatePoll(o, v, ok) ==
  /\ wpc[o] = "gate"
  /\ LET g == gate[o]
         act == g.action_taken = "None" /\ v > 0
         nvs == IF v > 0 THEN Null
                ELSE IF g.no_violation_start = Null THEN now
                ELSE g.no_violation_start
         grace == v = 0 /\ (NoViolationSeconds <= 0
                              \/ now - nvs >= NoViolationSeconds)
         end == IF ~GateLoop(stop_requested[o]) THEN "stop"
                ELSE IF grace THEN "grace"
                ELSE IF TimedOut(now, g.start_time) THEN "timeout"
                ELSE "none"
     IN
       /\ gate' = Set(gate, o,
            IF end = "stop" THEN [g EXCEPT !.ended_by = end]
            ELSE [g EXCEPT
                    !.violations_seen = g.violations_seen \/ v > 0,
                    !.no_violation_start = nvs,
                    !.action_taken =
                      IF act THEN ActionResult(route[o].violation_action, ok)
                      ELSE g.action_taken,
                    !.actions =
                      IF act /\ route[o].violation_action # "none"
                      THEN g.actions + 1 ELSE g.actions,
                    !.seen_polls =
                      IF v > 0 /\ g.seen_polls < MaxPolls
                      THEN g.seen_polls + 1 ELSE g.seen_polls,
                    !.ended_by = end])
       /\ wpc' = Set(wpc, o, IF end = "none" THEN "gate" ELSE "gate_notes")
  /\ UNCHANGED <<actionFrame, cmd_failed>>

\* after the loop: summary = self._build_waypoint_summary(...); notes =
\*   "violations_detected" if violations_seen; "timeout" is added
\*   if (time.time() - start_time) >= timeout.  Then, with no violation seen
\*   and no stop requested, the no-violation webview and speech
W_GateNotes(o) ==
  /\ wpc[o] = "gate_notes"
  /\ gate' = Set(gate, o, [gate[o] EXCEPT !.notes =
       (IF gate[o].violations_seen THEN {"violations_detected"} ELSE {})
         \cup (IF TimedOut(now, gate[o].start_time)
               THEN {"timeout"} ELSE {}),
                                      !.noted_at = now])
  /\ wpc' = Set(wpc, o, "gate_emit")
  /\ UNCHANGED <<actionFrame, cmd_failed>>

\* self.on_waypoint_summary(robot_id, route, waypoint, summary,
\*   action_taken, notes): the registry passes its callback; the summary
\*   dict is never empty
W_GateEmit(o) ==
  /\ wpc[o] = "gate_emit"
  /\ gate' = Set(gate, o,
       [gate[o] EXCEPT !.summaries = gate[o].summaries + 1])
  /\ wpc' = Set(wpc, o, NextStage(o, "gate"))
  /\ UNCHANGED <<actionFrame, cmd_failed>>

AfterCommandMutant(ok, next) == IF ok THEN next ELSE "err_state"
\* success = self.mqtt_client.speak_tts(...) (or show_webview, ...):
\* logged either way, and on to the next action
AfterCommand(ok, next) == next

\* the tts_message is spoken or the display command published; ok is what
\* publish_command returned
W_Command(o, ok) ==
  /\ wpc[o] \in {"tts", "display"}
  /\ cmd_failed' = Set(cmd_failed, o, cmd_failed[o] \/ ~ok)
  /\ wpc' = Set(wpc, o, AfterCommand(ok, NextStage(o, wpc[o])))
  /\ UNCHANGED <<actionFrame, gate>>

\* --------------------------------------------- PatrolManager: the API
\* stop() called through stop_patrol, which holds the registry lock
ViaRegistry(o) == regPc = "stop_call" /\ regOrch = o

\* stop(): if self.state == IDLE or self.state == STOPPED: return False
StopRefused(st) == st = "idle" \/ st = "stopped"

\* stop(): with self.lock: the state check
StopBegin(o) ==
  /\ robot_id[o] # 0
  /\ apiPc[o] = "idle"
  /\ Len(stopResults[o]) < MaxStops
  /\ IF StopRefused(state[o])
     THEN /\ stopResults' = Set(stopResults, o, Append(stopResults[o], FALSE))
          /\ regPc' = IF ViaRegistry(o) THEN "free" ELSE regPc
          /\ UNCHANGED apiPc
     ELSE /\ apiPc' = Set(apiPc, o, "stop_flag")
          /\ UNCHANGED <<stopResults, regPc>>
  /\ UNCHANGED extVars
  /\ UNCHANGED <<orchVars, workVars, confVars, evPc, patrols, regOrch,
                 wpGotos, stopCmds, completeEvents, exhausted,
                 lb_preempt, sp_refused,
                 late_insert>>

\* stop(): self.stop_requested = True
StopFlag(o) ==
  /\ apiPc[o] = "stop_flag"
  /\ stop_requested' = Set(stop_requested, o, TRUE)
  /\ apiPc' = Set(apiPc, o, "stop_state")
  /\ UNCHANGED extVars
  /\ UNCHANGED <<state, current_waypoint_index, current_waypoint, is_paused,
                 current_loop, is_low_battery, return_after_current,
                 waiting_for_arrival, workVars, confVars, evPc, regVars,
                 obsVars>>

\* stop(): self.state = PatrolState.STOPPED
StopState(o) ==
  /\ apiPc[o] = "stop_state"
  /\ state' = Set(state, o, "stopped")
  /\ apiPc' = Set(apiPc, o, "stop_cmd")
  /\ UNCHANGED extVars
  /\ UNCHANGED <<current_waypoint_index, current_waypoint, is_paused,
                 stop_requested, current_loop, is_low_battery,
                 return_after_current, waiting_for_arrival, workVars,
                 confVars, evPc, regVars, obsVars>>

JoinedMutant(w) == w \in {"none", "done", "errored"}
\* stop() returns without joining self.patrol_thread, wherever the worker
\* (at w) is
Joined(w) == TRUE

\* stop(): self.mqtt_client.stop_movement(); self._emit_status_update();
\*   return True
StopCmd(o) ==
  /\ apiPc[o] = "stop_cmd"
  /\ Joined(wpc[o])
  /\ stopCmds' = Set(stopCmds, o, stopCmds[o] + 1)
  /\ stopResults' = Set(stopResults, o, Append(stopResults[o], TRUE))
  /\ apiPc' = Set(apiPc, o, "idle")
  /\ regPc' = IF ViaRegistry(o) THEN "stop_del" ELSE regPc
  /\ UNCHANGED extVars
  /\ UNCHANGED <<orchVars, workVars, confVars, evPc, patrols, regOrch,
                 wpGotos, completeEvents, exhausted, lb_preempt, sp_refused,
                 late_insert>>

\* some stop() call on the instance has returned True
StopReturnedTrue(o) == \E i \in 1..Len(stopResults[o]) : stopResults[o][i]

\* start(): self.state = RUNNING; self.current_waypoint_index = 0;
\*   self.stop_requested = False; self.is_paused = False;
\*   the worker thread is started; self._emit_status_update(); return True
StartRun(o) ==
  /\ state' = Set(state, o, "running")
  /\ current_waypoint_index' = Set(current_waypoint_index, o, 0)
  /\ stop_requested' = Set(stop_requested, o, FALSE)
  /\ is_paused' = Set(is_paused, o, FALSE)
  /\ wpc' = Set(wpc, o, "begin")

\* start() on an instance that has not run (one run per instance)
Start(o) ==
  /\ robot_id[o] # 0
  /\ apiPc[o] = "idle" /\ wpc[o] = "none"
  /\ state[o] = "idle"
  /\ total_waypoints(o) > 0
  /\ StartRun(o)
  /\ UNCHANGED extVars
  /\ UNCHANGED <<current_waypoint, current_loop, is_low_battery,
                 return_after_current, waiting_for_arrival, keep_looping,
                 retry_count, dwell_i, confVars, apiPc, evPc, regVars,
                 obsVars>>

\* start() on a route without waypoints: self._emit_error("No waypoints in
\* route"); return False.  (start() in another state than IDLE returns False
\* and changes nothing.)
StartEmpty(o) ==
  /\ robot_id[o] # 0
  /\ apiPc[o] = "idle"
  /\ state[o] = "idle"
  /\ total_waypoints(o) = 0
  /\ error_events[o] < MaxStarts
  /\ error_events' = Set(error_events, o, error_events[o] + 1)
  /\ UNCHANGED <<patrolVars, yoloVars, clampVars, now, debVars, linkVars,
                 gate, cmd_failed, last_event, inspVars>>

\* pause(): with self.lock: the state is RUNNING or WAITING (else return
\* False, nothing changes); self.is_paused = True
PauseBegin(o) ==
  /\ robot_id[o] # 0
  /\ apiPc[o] = "idle"
  /\ state[o] \in {"running", "waiting"}
  /\ is_paused' = Set(is_paused, o, TRUE)
  /\ apiPc' = Set(apiPc, o, "pause_state")
  /\ UNCHANGED extVars
  /\ UNCHANGED <<state, current_waypoint_index, current_waypoint,
                 stop_requested, current_loop, is_low_battery,
                 return_after_current, waiting_for_arrival, workVars,
                 confVars, evPc, regVars, obsVars>>

\* pause(): self.state = PatrolState.PAUSED; self.mqtt_client.stop_movement();
\*   self._emit_status_update(); return True
PauseEnd(o) ==
  /\ apiPc[o] = "pause_state"
  /\ state' = Set(state, o, "paused")
  /\ apiPc' = Set(apiPc, o, "idle")
  /\ UNCHANGED extVars
  /\ UNCHANGED <<current_waypoint_index, current_waypoint, is_paused,
                 stop_requested, current_loop, is_low_battery,
                 return_after_current, waiting_for_arrival, workVars,
                 confVars, evPc, regVars, obsVars>>

\* resume(): with self.lock: the state is PAUSED (else return False, nothing
\* changes); self.is_paused = False
ResumeBegin(o) ==
  /\ robot_id[o] # 0
  /\ apiPc[o] = "idle"
  /\ state[o] = "paused"
  /\ is_paused' = Set(is_paused, o, FALSE)
  /\ apiPc' = Set(apiPc, o, "resume_state")
  /\ UNCHANGED extVars
  /\ UNCHANGED <<state, current_waypoint_index, current_waypoint,
                 stop_requested, current_loop, is_low_battery,
                 return_after_current, waiting_for_arrival, workVars,
                 confVars, evPc, regVars, obsVars>>

\* resume(): self.state = PatrolState.RUNNING; if self.current_waypoint and
\*   self.waiting_for_arrival: goto_waypoint(current waypoint);
\*   self._emit_status_update(); return True
ResumeEnd(o) ==
  /\ apiPc[o] = "resume_state"
  /\ state' = Set(state, o, "running")
  /\ apiPc' = Set(apiPc, o, "idle")
  /\ UNCHANGED extVars
  /\ UNCHANGED <<current_waypoint_index, current_waypoint, is_paused,
                 stop_requested, current_loop, is_low_battery,
                 return_after_current, waiting_for_arrival, workVars,
                 confVars, evPc, regVars, obsVars>>

\* pause() has returned True and no resume() has passed its state check
PauseInForce(o) == is_paused[o] /\ apiPc[o] # "pause_state"

\* ------------------------------- PatrolManager: events from the robot
\* on_waypoint_event("arrived", ...) or ("goto", ..., "complete"):
\*   self.waiting_for_arrival = False; self._on_waypoint_arrival()
Arrival(o) ==
  /\ robot_id[o] # 0
  /\ evPc[o] = "idle"
  /\ waiting_for_arrival[o]
  /\ waiting_for_arrival' = Set(waiting_for_arrival, o, FALSE)
  /\ UNCHANGED extVars
  /\ UNCHANGED <<state, current_waypoint_index, current_waypoint, is_paused,
                 stop_requested, current_loop, is_low_battery,
                 return_after_current, workVars, confVars, apiPc, evPc,
                 regVars, obsVars>>

\* the worker is in the arrival wait of _wait_for_waypoint_completion and no
\* arrival has been delivered
InArrivalWait(o) == wpc[o] = "wait" /\ waiting_for_arrival[o]

\* no on_waypoint_event call yet
NoEvent ==
  [event_type |-> "none", status |-> "none", location |-> 0,
   index |-> 0, loop |-> 0, in_wait |-> FALSE, error |-> FALSE]

EndsWaitMutant(event_type, status) ==
  event_type = "arrived" \/ (event_type = "goto" /\ status = "complete")
\* on_waypoint_event: the events that set self.waiting_for_arrival = False:
\* "arrived", and "goto" with status complete, abort or fail
EndsWait(event_type, status) ==
  \/ event_type = "arrived"
  \/ event_type = "goto" /\ status \in {"complete", "abort", "fail"}

\* on_waypoint_event(event_type, location, status), location naming the
\* waypoint loc of the route:
\*   goto/start: self.waiting_for_arrival = True
\*   goto/complete and arrived: self.waiting_for_arrival = False;
\*     self._on_waypoint_arrival()
\*   goto/abort and goto/fail: self.waiting_for_arrival = False;
\*     self._emit_error(...)
\* location is only logged
WaypointEvent(o, event_type, loc, status) ==
  /\ robot_id[o] # 0
  /\ evPc[o] = "idle"
  /\ waiting_for_arrival' = Set(waiting_for_arrival, o,
       IF EndsWait(event_type, status) THEN FALSE
       ELSE IF event_type = "goto" /\ status = "start" THEN TRUE
       ELSE waiting_for_arrival[o])
  /\ last_event' = Set(last_event, o,
       [event_type |-> event_type, status |-> status, location |-> loc,
        index |-> current_waypoint_index[o], loop |-> current_loop[o],
        in_wait |-> InArrivalWait(o),
        error |-> event_type = "goto" /\ status \in {"abort", "fail"}])
  /\ UNCHANGED <<state, current_waypoint_index, current_waypoint, is_paused,
                 stop_requested, current_loop, is_low_battery,
                 return_after_current, workVars, confVars, apiPc, evPc,
                 regVars, obsVars>>
  /\ UNCHANGED <<yoloVars, clampVars, now, debVars, linkVars, error_events,
                 gate, cmd_failed, inspVars>>

\* update_battery_level(level, is_charging); low stands for
\* level <= self.low_battery_threshold and not is_charging
BatteryUpdate(o, low) ==
  /\ robot_id[o] # 0
  /\ evPc[o] = "idle"
  /\ IF low
     THEN /\ ~is_low_battery[o]
          /\ is_low_battery' = Set(is_low_battery, o, TRUE)
          /\ return_after_current' = Set(return_after_current, o, TRUE)
          /\ evPc' = Set(evPc, o, "lb_state")
          /\ lb_preempt' = Set(lb_preempt, o,
               IF ~InArrivalWait(o) THEN "no"
               ELSE IF low_battery_action = "stop_immediately"
               THEN "handling" ELSE "deferred")
     ELSE /\ is_low_battery[o]
          /\ is_low_battery' = Set(is_low_battery, o, FALSE)
          /\ UNCHANGED <<return_after_current, evPc, lb_preempt>>
  /\ UNCHANGED extVars
  /\ UNCHANGED <<state, current_waypoint_index, current_waypoint, is_paused,
                 stop_requested, current_loop, waiting_for_arrival,
                 workVars, confVars, apiPc, regVars, wpGotos, stopResults,
                 stopCmds, completeEvents, exhausted, sp_refused,
                 late_insert>>

\* _handle_low_battery: self.state = LOW_BATTERY; self._emit_status_update()
LbState(o) ==
  /\ evPc[o] = "lb_state"
  /\ state' = Set(state, o, "low_battery")
  /\ evPc' = Set(evPc, o, IF low_battery_action = "stop_immediately"
                           THEN "lb_flag" ELSE "idle")
  /\ UNCHANGED extVars
  /\ UNCHANGED <<current_waypoint_index, current_waypoint, is_paused,
                 stop_requested, current_loop, is_low_battery,
                 return_after_current, waiting_for_arrival, workVars,
                 confVars, apiPc, regVars, obsVars>>

\* _handle_low_battery, stop_immediately: self.stop_requested = True
LbFlag(o) ==
  /\ evPc[o] = "lb_flag"
  /\ stop_requested' = Set(stop_requested, o, TRUE)
  /\ evPc' = Set(evPc, o, "lb_stop")
  /\ UNCHANGED extVars
  /\ UNCHANGED <<state, current_waypoint_index, current_waypoint, is_paused,
                 current_loop, is_low_battery, return_after_current,
                 waiting_for_arrival, workVars, confVars, apiPc, regVars,
                 obsVars>>

\* _handle_low_battery, stop_immediately: self.mqtt_client.stop_movement()
LbStop(o) ==
  /\ evPc[o] = "lb_stop"
  /\ evPc' = Set(evPc, o, "lb_goto")
  /\ UNCHANGED extVars
  /\ UNCHANGED <<orchVars, workVars, confVars, apiPc, regVars, obsVars>>

\* _handle_low_battery, stop_immediately: time.sleep(1);
\*   self._return_to_location("low_battery_immediate")
LbGoto(o) ==
  /\ evPc[o] = "lb_goto"
  /\ evPc' = Set(evPc, o, "idle")
  /\ lb_preempt' = Set(lb_preempt, o,
       IF lb_preempt[o] = "handling" THEN "returned" ELSE lb_preempt[o])
  /\ UNCHANGED extVars
  /\ UNCHANGED <<orchVars, workVars, confVars, apiPc, regVars,
                 wpGotos, stopResults, stopCmds, completeEvents,
                 exhausted, sp_refused,
                 late_insert>>

\* ------------------------------------------- MultiRobotPatrolManager
AlreadyRunningMutant(r) == FALSE
\* start_patrol: if robot_id in self.patrols
AlreadyRunning(r) == patrols[r] # NoEntry

Unconstructed == {o \in OrchIds : robot_id[o] = 0}

\* PatrolManager(robot_id, mqtt_client, route, self.settings,
\*               on_complete=self._on_complete, ...)
Construct(o, r, rt, cb) ==
  /\ robot_id' = Set(robot_id, o, r)
  /\ route' = Set(route, o, rt)
  /\ on_complete' = Set(on_complete, o, cb)

LinkUsableMutant(link_ok) == TRUE
\* start_patrol: not (not mqtt_client or not mqtt_client.connected), with
\* link_ok what get_robot_client(robot_id) and its .connected gave
LinkUsable(link_ok) == link_ok

\* start_patrol refused: the robot has an entry, or its link is missing or
\* not connected; return False
StartPatrolRefused(r, link_ok) ==
  /\ regPc = "free"
  /\ AlreadyRunning(r) \/ ~LinkUsable(link_ok)
  /\ sp_refused' = sp_refused \cup
       {IF AlreadyRunning(r) THEN "already_running" ELSE "not_connected"}
  /\ UNCHANGED extVars
  /\ UNCHANGED <<orchVars, workVars, confVars, apiPc, evPc, regVars,
                 wpGotos, stopResults, stopCmds, completeEvents,
                 exhausted, lb_preempt, late_insert>>

\* start_patrol: with self.lock: the checks pass, patrol = PatrolManager(...),
\* patrol.start() succeeds and starts the worker
StartPatrol(r, rt, link_ok) ==
  /\ regPc = "free"
  /\ ~AlreadyRunning(r)
  /\ LinkUsable(link_ok)
  /\ Unconstructed # {}
  /\ rt.n > 0
  /\ LET o == CHOOSE x \in Unconstructed : \A y \in Unconstructed : x <= y IN
       /\ Construct(o, r, rt, "registry")
       /\ StartRun(o)
       /\ regPc' = "start_insert"
       /\ regOrch' = o
  /\ UNCHANGED extVars
  /\ UNCHANGED <<current_waypoint, current_loop, is_low_battery,
                 return_after_current, waiting_for_arrival, keep_looping,
                 retry_count, dwell_i, low_battery_action,
                 waypoint_max_retries, apiPc, evPc, patrols, obsVars>>

\* start_patrol: self.patrols[robot_id] = patrol; return True
StartInsert ==
  /\ regPc = "start_insert"
  /\ patrols' = [patrols EXCEPT ![robot_id[regOrch]] = regOrch]
  /\ late_insert' = Set(late_insert, regOrch, wpc[regOrch] = "fin_emit")
  /\ regPc' = "free"
  /\ UNCHANGED extVars
  /\ UNCHANGED <<orchVars, workVars, confVars, apiPc, evPc, regOrch,
                 wpGotos, stopResults, stopCmds, completeEvents, exhausted,
                 lb_preempt, sp_refused>>

\* stop_patrol: with self.lock: patrol = self.patrols.get(robot_id);
\*   if not patrol: return False; then patrol.stop() is called
StopPatrol(r) ==
  /\ regPc = "free"
  /\ patrols[r] # NoEntry
  /\ Len(stopResults[patrols[r]]) < MaxStops
  /\ regPc' = "stop_call"
  /\ regOrch' = patrols[r]
  /\ UNCHANGED extVars
  /\ UNCHANGED <<orchVars, workVars, confVars, apiPc, evPc, patrols, obsVars>>

\* stop_patrol: if success: del self.patrols[robot_id]
StopDel ==
  /\ regPc = "stop_del"
  /\ patrols' = [patrols EXCEPT ![robot_id[regOrch]] = NoEntry]
  /\ regPc' = "free"
  /\ UNCHANGED extVars
  /\ UNCHANGED <<orchVars, workVars, confVars, apiPc, evPc, regOrch, obsVars>>

\* get_patrol_status(robot_id) returns None
NoStatus(r) == patrols[r] = NoEntry

\* get_active_patrol_count(): len(self.patrols)
ActivePatrolCount == Cardinality({r \in Robots : patrols[r] # NoEntry})

\* ------------------------------------------ app.py: process_yolo_topic
\* _safe_int(value, default=0) on an integer or None: int(float(value))
_safe_int(value) == IF value = Null THEN 0 ELSE value

ClampMutant(total_violations, total_people) ==
  LET v == _safe_int(total_violations)
      q == _safe_int(total_people)
      q1 == IF q < 0 THEN 0 ELSE q
  IN  <<IF v > q1 THEN q1 ELSE v, q1>>
\* _clamp_violations(total_violations, total_people)
_clamp_violations(total_violations, total_people) ==
  LET v == _safe_int(total_violations)
      q == _safe_int(total_people)
      q1 == IF q < 0 THEN 0 ELSE q
      v1 == IF v < 0 THEN 0 ELSE v
  IN  <<IF q1 >= 0 /\ v1 > q1 THEN q1 ELSE v1, q1>>

\* settings read by _smooth_violations: the smallest window the code
\* allows, and the defaults of the smoothing factor (0.3) and of the
\* outlier threshold (3.0)
YoloWindow == 3
AlphaTenths == 3
YoloOutlier == 3

\* the EMA is kept as an integer numerator over EmaScale, which is exact
\* for as many updates as there are messages
EmaScale == 10 ^ MaxMsgs

RECURSIVE SumSeq(_)
SumSeq(q) == IF q = <<>> THEN 0 ELSE Head(q) + SumSeq(Tail(q))

RECURSIVE SumSq(_)
SumSq(q) == IF q = <<>> THEN 0 ELSE Head(q) * Head(q) + SumSq(Tail(q))

\* int(round(num / den)) for num >= 0: Python rounds halves to even
RoundHalfEven(num, den) ==
  LET q == num \div den
      r == num % den
  IN  IF 2 * r < den THEN q
      ELSE IF 2 * r > den THEN q + 1
      ELSE IF q % 2 = 0 THEN q ELSE q + 1

\* _smooth_violations: std > 0 and abs(value - mean) / std > outlier, with
\* mean = S/n and std^2 = (n*Q - S^2)/n^2 over the window
IsOutlier(hist, value) ==
  LET n == Len(hist)
      S == SumSeq(hist)
      Q == SumSq(hist)
      d == n * value - S
  IN  /\ n >= 3
      /\ n * Q - S * S > 0
      /\ d * d > YoloOutlier * YoloOutlier * (n * Q - S * S)

\* _smooth_violations: value = int(round(mean)) for an outlier
SmoothInput(hist, value) ==
  IF IsOutlier(hist, value)
  THEN RoundHalfEven(SumSeq(hist), Len(hist))
  ELSE value

\* _smooth_violations: ema = alpha * value + (1 - alpha) * prev, where prev
\* is value itself on the first call for the robot
NextEma(prev, value) ==
  IF prev = Null THEN value * EmaScale
  ELSE (AlphaTenths * value * EmaScale + (10 - AlphaTenths) * prev) \div 10

\* hist.append(value) on a deque(maxlen=window)
DequeAppend(hist, value) ==
  IF Len(hist) < YoloWindow THEN Append(hist, value)
  ELSE Append(Tail(hist), value)

RawCounts == {-1, 0, 1, 5}
YoloRobots == {1}

\* one summary or counts message, handled under yolo_state_lock.
\*   v, q: payload total_violations / total_people, Null when the key is
\*   absent; rid: payload robot_id, 0 when absent
ProcessYoloTopic(kind, v, q, rid) ==
  /\ yolo_msgs < MaxMsgs
  /\ yolo_msgs' = yolo_msgs + 1
  /\ LET people_arg == IF q = Null /\ kind = "summary"
                       THEN yolo_state.total_people ELSE q
         clamped == _clamp_violations(v, people_arg)
     IN  IF rid # 0
         THEN LET value == SmoothInput(violation_history[rid], clamped[1])
                  ema == NextEma(violation_ema[rid], value)
              IN  /\ violation_ema' = [violation_ema EXCEPT ![rid] = ema]
                  /\ violation_history' =
                       [violation_history EXCEPT
                          ![rid] = DequeAppend(violation_history[rid], value)]
                  /\ yolo_state' =
                       [total_violations |-> RoundHalfEven(ema, EmaScale),
                        total_people |-> clamped[2]]
         ELSE /\ yolo_state' = [total_violations |-> clamped[1],
                                total_people |-> clamped[2]]
              /\ UNCHANGED <<violation_history, violation_ema>>
  /\ UNCHANGED <<patrolVars, clampVars, now, debVars, linkVars, runVars,
                 inspVars>>

\* the module-level yolo_state, violation_history and violation_ema
YoloIdle ==
  /\ yolo_state = [total_violations |-> 0, total_people |-> 0]
  /\ violation_history = [r \in YoloRobots |-> <<>>]
  /\ violation_ema = [r \in YoloRobots |-> Null]
  /\ yolo_msgs = 0

\* _clamp_violations called on the pair clamp_args
ApplyClamp ==
  /\ clamp_result = <<>>
  /\ clamp_result' = _clamp_violations(clamp_args[1], clamp_args[2])
  /\ UNCHANGED <<patrolVars, yoloVars, clamp_args, now, debVars, linkVars,
                 runVars, inspVars>>

ClampIdle == clamp_args = <<0, 0>> /\ clamp_result = <<>>

\* ----------------------------------------------------------- the clock
\* time.time() / datetime.now() advance
Tick ==
  /\ now < MaxTime
  /\ now' = now + 1
  /\ UNCHANGED <<patrolVars, yoloVars, clampVars, debVars, linkVars, runVars,
                 inspVars>>

\* ------------------------------ violation_debouncer.py: ViolationDebouncer
\* self.config, as set_config can set it: the window in seconds, the
\* outlier threshold in standard deviations and the minimum confidence;
\* confidences are in hundredths
DebounceWindow == 2
OutlierThreshold == 1
MinConfidence == 50

DebPatrols == {1}
DebWaypoints == {0, 1}
Confidences == {10, 60, 90}

NoResult == [should_report |-> FALSE, reason |-> "none", waypoint |-> 0]

\* while history and history[0]['timestamp'] < window_start: popleft()
RECURSIVE PopOld(_, _)
PopOld(q, window_start) ==
  IF q # <<>> /\ Head(q).timestamp < window_start
  THEN PopOld(Tail(q), window_start)
  ELSE q

\* confidences = [v['confidence'] for v in window_violations]
ConfidencesOf(q) == [i \in 1..Len(q) |-> q[i].confidence]

\* stdev > 0, for statistics.stdev (the sample standard deviation):
\* stdev^2 = (n*Q - S^2) / (n*(n-1))
StdevPositive(cs) == Len(cs) * SumSq(cs) - SumSeq(cs) * SumSeq(cs) > 0

\* abs((confidence_score - mean) / stdev) > outlier_threshold, squared and
\* cleared of its denominators
ZScoreExceeds(cs, c) ==
  LET n == Len(cs)
      S == SumSeq(cs)
      d == n * c - S
  IN  d * d * (n - 1) >
        OutlierThreshold * OutlierThreshold * n * (n * SumSq(cs) - S * S)

ReachesThresholdMutant(violation_count, threshold) ==
  violation_count > threshold
\* if violation_count >= threshold
ReachesThreshold(violation_count, threshold) == violation_count >= threshold

\* the analysis of the window after the insert and the pruning
Decide(window_violations, c, threshold) ==
  LET cs == ConfidencesOf(window_violations) IN
  IF Len(window_violations) = 0 THEN "empty"
  ELSE IF Len(window_violations) = 1 THEN "single"
  ELSE IF StdevPositive(cs) /\ ZScoreExceeds(cs, c) THEN "outlier"
  ELSE IF ReachesThreshold(Len(window_violations), threshold) THEN "reported"
  ELSE "insufficient"

\* add_violation_observation(patrol_id, waypoint_index, violation_type,
\*   confidence_score, timestamp); ts = Null stands for timestamp=None
AddObservation(p, w, c, ts) ==
  /\ obs_count[p] < MaxObs
  /\ obs_count' = [obs_count EXCEPT ![p] = obs_count[p] + 1]
  /\ IF c < MinConfidence
     THEN /\ deb_result' = [deb_result EXCEPT ![p] =
                [should_report |-> FALSE, reason |-> "low_confidence",
                 waypoint |-> w]]
          /\ UNCHANGED debouncer_history
     ELSE LET observation == [timestamp |-> IF ts = Null THEN now ELSE ts,
                              confidence |-> c, waypoint |-> w]
              window == PopOld(Append(debouncer_history[p], observation),
                               now - DebounceWindow)
              d == Decide(window, c, violation_threshold)
          IN  /\ debouncer_history' =
                   [debouncer_history EXCEPT ![p] = window]
              /\ deb_result' = [deb_result EXCEPT ![p] =
                   [should_report |-> d = "reported", reason |-> d,
                    waypoint |-> w]]
  /\ UNCHANGED <<patrolVars, yoloVars, clampVars, now, violation_threshold,
                 linkVars, runVars, inspVars>>

\* get_violation_stats(patrol_id, waypoint_index)['violation_count']
StatsCount(p, w) == Len(debouncer_history[p])

\* a ViolationDebouncer with no patrol yet
DebouncerIdle ==
  /\ debouncer_history = [p \in DebPatrols |-> <<>>]
  /\ deb_result = [p \in DebPatrols |-> NoResult]
  /\ obs_count = [p \in DebPatrols |-> 0]

\* ------------------------------------- mqtt_manager.py: MQTTRobotClient
Links == {1, 2}
Callers == {1, 2}
NoLink == 0           \* robot_clients has no entry for the robot
LongAgo == -2         \* last_connect_attempt = 0.0, the epoch

otherVars == <<patrolVars, yoloVars, clampVars, now, debVars, runVars,
               inspVars>>

ThrottledMutant(t, last) == t - last < 1
\* (now - self.last_connect_attempt) < 2.0
Throttled(t, last) == t - last < 2

\* value returned to the caller c
Return(c, v) ==
  /\ cpc' = [cpc EXCEPT ![c] = "idle"]
  /\ cres' = [cres EXCEPT ![c] = v]

\* the lock section of connect() and of ensure_connected(): if
\* self.connecting or throttled: return False (the finally clause then clears
\* self.connecting); else self.connecting = True;
\* self.last_connect_attempt = now, which begins an attempt
LockSection(c, l, next_pc) ==
  IF connecting[l] \/ Throttled(now, last_connect_attempt[l])
  THEN /\ connecting' = [connecting EXCEPT ![l] = FALSE]
       /\ Return(c, "false")
       /\ UNCHANGED <<last_connect_attempt, attempts>>
  ELSE /\ Len(attempts[l]) < MaxAttempts
       /\ connecting' = [connecting EXCEPT ![l] = TRUE]
       /\ last_connect_attempt' = [last_connect_attempt EXCEPT ![l] = now]
       /\ attempts' = [attempts EXCEPT ![l] = Append(attempts[l], now)]
       /\ cpc' = [cpc EXCEPT ![c] = next_pc]
       /\ cres' = [cres EXCEPT ![c] = "none"]

\* connect() entered by caller c on link l, to return into the call ctx
ConnectEnter(c, l, ctx) ==
  /\ cctx' = [cctx EXCEPT ![c] = ctx]
  /\ clink' = [clink EXCEPT ![c] = l]
  /\ LockSection(c, l, "c_setup")
  /\ UNCHANGED <<client, connected, loop_started, pending>>

\* connect(): self.connected = False; self.client = mqtt.Client(...)
ConnectSetup(c) ==
  /\ cpc[c] = "c_setup"
  /\ connected' = [connected EXCEPT ![clink[c]] = FALSE]
  /\ client' = [client EXCEPT ![clink[c]] = client[clink[c]] + 1]
  /\ cpc' = [cpc EXCEPT ![c] = "c_dial"]
  /\ UNCHANGED <<connecting, last_connect_attempt, loop_started, pending,
                 cctx, clink, cres, link_robot, robot_clients, attempts,
                 confirmed, add_failed, otherVars>>

\* connect(): self.client.connect(...) and, unless self.loop_started,
\* loop_start(); return True.  Or an exception: return False
ConnectDial(c) ==
  /\ cpc[c] = "c_dial"
  /\ cpc' = [cpc EXCEPT ![c] = "c_fin"]
  /\ \/ /\ pending' = [pending EXCEPT ![clink[c]] = TRUE]
        /\ loop_started' = [loop_started EXCEPT ![clink[c]] = TRUE]
        /\ cres' = [cres EXCEPT ![c] = "true"]
     \/ /\ cres' = [cres EXCEPT ![c] = "false"]
        /\ UNCHANGED <<pending, loop_started>>
  /\ UNCHANGED <<client, connected, connecting, last_connect_attempt,
                 cctx, clink, link_robot, robot_clients, attempts,
                 confirmed, add_failed, otherVars>>

\* connect(): finally: self.connecting = False; then back in the caller:
\*   ensure_connected: if self.connect(): return self._wait_for_connect(5.0)
\*   add_robot: if success: if client._wait_for_connect(5.0): ...
ConnectFin(c) ==
  /\ cpc[c] = "c_fin"
  /\ connecting' = [connecting EXCEPT ![clink[c]] = FALSE]
  /\ cpc' = [cpc EXCEPT ![c] =
       IF cres[c] = "true" /\ cctx[c] \in {"ensure", "add_ensure"}
       THEN "f_wait"
       ELSE IF cres[c] = "true" /\ cctx[c] = "add" THEN "a_wait"
       ELSE "idle"]
  /\ UNCHANGED <<client, connected, last_connect_attempt, loop_started,
                 pending, cctx, clink, cres, link_robot, robot_clients,
                 attempts, confirmed, add_failed, otherVars>>

\* ensure_connected() entered by caller c on link l
EnsureEnter(c, l, ctx) ==
  IF connected[l] /\ client[l] # 0
  THEN /\ Return(c, "true")
       /\ cctx' = [cctx EXCEPT ![c] = ctx]
       /\ clink' = [clink EXCEPT ![c] = l]
       /\ UNCHANGED <<client, connected, connecting, last_connect_attempt,
                      loop_started, pending, attempts>>
  ELSE IF client[l] # 0
  THEN /\ cctx' = [cctx EXCEPT ![c] = ctx]
       /\ clink' = [clink EXCEPT ![c] = l]
       /\ LockSection(c, l, "e_reconnect")
       /\ UNCHANGED <<client, connected, loop_started, pending>>
  ELSE ConnectEnter(c, l, ctx)

\* ensure_connected(): loop_start() unless started; self.client.reconnect().
\* Or an exception: logged, finally: self.connecting = False, and on to the
\* fresh connect
EnsureReconnect(c) ==
  /\ cpc[c] = "e_reconnect"
  /\ loop_started' = [loop_started EXCEPT ![clink[c]] = TRUE]
  /\ \/ /\ pending' = [pending EXCEPT ![clink[c]] = TRUE]
        /\ cpc' = [cpc EXCEPT ![c] = "e_wait"]
        /\ UNCHANGED connecting
     \/ /\ connecting' = [connecting EXCEPT ![clink[c]] = FALSE]
        /\ cpc' = [cpc EXCEPT ![c] = "e_fallback"]
        /\ UNCHANGED pending
  /\ UNCHANGED <<client, connected, last_connect_attempt, cctx, clink, cres,
                 link_robot, robot_clients, attempts, confirmed, add_failed,
                 otherVars>>

\* ensure_connected(): if self.connect(): ...
EnsureFallback(c) ==
  /\ cpc[c] = "e_fallback"
  /\ ConnectEnter(c, clink[c], cctx[c])
  /\ UNCHANGED <<link_robot, robot_clients, confirmed, add_failed, otherVars>>

\* ensure_connected(): return self._wait_for_connect(5.0) after reconnect();
\* finally: self.connecting = False.  _wait_for_connect gives True as soon as
\* self.connected is seen, else self.connected at the deadline (the wait is
\* not timed here: it may give up at any moment at which the link is not
\* connected)
EnsureWait(c) ==
  /\ cpc[c] = "e_wait"
  /\ Return(c, IF connected[clink[c]] THEN "true" ELSE "false")
  /\ connecting' = [connecting EXCEPT ![clink[c]] = FALSE]
  /\ UNCHANGED <<client, connected, last_connect_attempt, loop_started,
                 pending, cctx, clink, link_robot, robot_clients, attempts,
                 confirmed, add_failed, otherVars>>

\* ensure_connected(): return self._wait_for_connect(5.0) after connect()
FallbackWait(c) ==
  /\ cpc[c] = "f_wait"
  /\ Return(c, IF connected[clink[c]] THEN "true" ELSE "false")
  /\ UNCHANGED <<client, connected, connecting, last_connect_attempt,
                 loop_started, pending, cctx, clink, link_robot, robot_clients, attempts,
                 confirmed, add_failed, otherVars>>

\* a thread calls link.connect()
ConnectCall(c, l) ==
  /\ cpc[c] = "idle"
  /\ link_robot[l] # 0
  /\ ConnectEnter(c, l, "connect")
  /\ UNCHANGED <<link_robot, robot_clients, confirmed, add_failed, otherVars>>

\* a thread calls link.ensure_connected() (publish_command does)
EnsureCall(c, l) ==
  /\ cpc[c] = "idle"
  /\ link_robot[l] # 0
  /\ EnsureEnter(c, l, "ensure")
  /\ UNCHANGED <<link_robot, robot_clients, confirmed, add_failed, otherVars>>

\* _on_connect with rc == 0, on the network loop thread
OnConnect(l) ==
  /\ pending[l] /\ loop_started[l]
  /\ connected' = [connected EXCEPT ![l] = TRUE]
  /\ connecting' = [connecting EXCEPT ![l] = FALSE]
  /\ pending' = [pending EXCEPT ![l] = FALSE]
  /\ confirmed' = [confirmed EXCEPT ![l] = TRUE]
  /\ UNCHANGED <<client, last_connect_attempt, loop_started, cpc, cctx, clink, cres,
                 link_robot, robot_clients, attempts, add_failed, otherVars>>

\* _on_disconnect, on the network loop thread; the paho client then
\* reconnects by itself
OnDisconnect(l) ==
  /\ connected[l] /\ loop_started[l]
  /\ connected' = [connected EXCEPT ![l] = FALSE]
  /\ connecting' = [connecting EXCEPT ![l] = FALSE]
  /\ pending' = [pending EXCEPT ![l] = TRUE]
  /\ UNCHANGED <<client, last_connect_attempt, loop_started, cpc, cctx, clink, cres,
                 link_robot, robot_clients, attempts, confirmed, add_failed,
                 otherVars>>

\* ------------------------------------------ mqtt_manager.py: MQTTManager
WaitConfirmedMutant(l) == TRUE
\* add_robot: if client._wait_for_connect(5.0)
WaitConfirmed(l) == connected[l]

\* add_robot(robot_id, ...): with self.lock (no other thread is inside
\* add_robot): the robot has a link, which is connected (return True) or not
\* (return existing.ensure_connected()); or a new MQTTRobotClient is made
\* and client.connect() called
AddRobot(c, r) ==
  /\ cpc[c] = "idle"
  /\ \A d \in Callers : cpc[d] = "idle" \/ cctx[d] \notin {"add", "add_ensure"}
  /\ IF robot_clients[r] # NoLink
     THEN /\ IF connected[robot_clients[r]]
             THEN /\ Return(c, "true")
                  /\ cctx' = [cctx EXCEPT ![c] = "add"]
                  /\ clink' = [clink EXCEPT ![c] = robot_clients[r]]
                  /\ UNCHANGED <<client, connected, connecting, last_connect_attempt,
                      loop_started, pending, attempts>>
             ELSE EnsureEnter(c, robot_clients[r], "add_ensure")
          /\ UNCHANGED link_robot
     ELSE LET Unmade == {l \in Links : link_robot[l] = 0} IN
          /\ Unmade # {}
          /\ LET l == CHOOSE x \in Unmade : \A y \in Unmade : x <= y IN
               /\ link_robot' = [link_robot EXCEPT ![l] = r]
               /\ ConnectEnter(c, l, "add")
  /\ UNCHANGED <<robot_clients, confirmed, add_failed, otherVars>>

\* add_robot: the wait after connect(): self.robot_clients[robot_id] =
\* client; return True.  Or the timeout
AddWait(c) ==
  /\ cpc[c] = "a_wait"
  /\ IF WaitConfirmed(clink[c])
     THEN /\ robot_clients' =
               [robot_clients EXCEPT ![link_robot[clink[c]]] = clink[c]]
          /\ Return(c, "true")
     ELSE /\ cpc' = [cpc EXCEPT ![c] = "a_disc"]
          /\ UNCHANGED <<robot_clients, cres>>
  /\ UNCHANGED <<client, connected, connecting, last_connect_attempt,
                 loop_started, pending, cctx, clink, link_robot, attempts, confirmed,
                 add_failed, otherVars>>

\* add_robot: client.disconnect() (loop_stop(); self.loop_started = False;
\* self.client.disconnect(); self.connected = False); the function ends
\* without a return value
AddDisconnect(c) ==
  /\ cpc[c] = "a_disc"
  /\ loop_started' = [loop_started EXCEPT ![clink[c]] = FALSE]
  /\ connected' = [connected EXCEPT ![clink[c]] = FALSE]
  /\ pending' = [pending EXCEPT ![clink[c]] = FALSE]
  /\ add_failed' = add_failed \cup {clink[c]}
  /\ Return(c, "None")
  /\ UNCHANGED <<client, connecting, last_connect_attempt, cctx, clink,
                 link_robot, robot_clients, attempts, confirmed, otherVars>>

\* the fields of a new MQTTRobotClient; no caller
LinksIdle ==
  /\ client = [l \in Links |-> 0]
  /\ connected = [l \in Links |-> FALSE]
  /\ connecting = [l \in Links |-> FALSE]
  /\ last_connect_attempt = [l \in Links |-> LongAgo]
  /\ loop_started = [l \in Links |-> FALSE]
  /\ pending = [l \in Links |-> FALSE]
  /\ robot_clients = [r \in Robots |-> NoLink]
  /\ cpc = [c \in Callers |-> "idle"]
  /\ cctx = [c \in Callers |-> "connect"]
  /\ clink = [c \in Callers |-> 1]
  /\ cres = [c \in Callers |-> "none"]
  /\ attempts = [l \in Links |-> <<>>]
  /\ confirmed = [l \in Links |-> FALSE]
  /\ add_failed = {}

\* --------------- yolo_inspection_manager.py: YoloInspectionPatrolManager
RecentSeconds == 2          \* time_since_last < 10
PipelineStartTimeout == 2   \* pipeline_start_timeout (30 by default)

\* __init__, with nothing published, emitted or recorded yet.  session is
\* the status of the inspection session in the database; signal: a message
\* of the pipeline arrived after the start command; stopped_running: stop()
\* was called while the worker was alive
NoInsp ==
  [pc |-> "none", state |-> "idle", stop_requested |-> FALSE,
   is_paused |-> FALSE, current_waypoint_index |-> 0, idx |-> 0,
   session |-> "none", pipeline_status |-> "unknown", start_time |-> 0,
   recent |-> FALSE, cmd_sent |-> FALSE, signal |-> FALSE,
   stopped_running |-> FALSE, gotos |-> 0, inspections |-> 0,
   complete_events |-> 0, error_events |-> 0]

\* len(self.route['waypoints'])
InspWaypoints == MaxWaypoints

inspFrame == <<patrolVars, yoloVars, clampVars, now, debVars, linkVars,
               runVars>>

\* a message of the detection pipeline reaches the application, which
\* stores its timestamp and its count in the state the provider returns
PipelineMessage(v) ==
  /\ pipeline' = [pipeline EXCEPT !.last_message_time = now,
                                  !.total_violations = v]
  /\ insp' = [insp EXCEPT !.signal = insp.signal \/ insp.cmd_sent]
  /\ UNCHANGED inspFrame

\* start(): the session is created with status 'checking' and the worker
\* thread started
InspStart ==
  /\ insp.pc = "none"
  /\ insp' = [insp EXCEPT !.session = "checking", !.pc = "begin"]
  /\ UNCHANGED <<inspFrame, pipeline>>

\* stop(): self.stop_requested = True; if self.session_id: the session's
\* status is set to 'stopped'
InspStop ==
  /\ insp' = [insp EXCEPT
       !.stop_requested = TRUE,
       !.session = IF insp.session # "none" THEN "stopped" ELSE "none",
       !.stopped_running =
         insp.stopped_running \/ insp.pc \notin {"none", "done"}]
  /\ UNCHANGED <<inspFrame, pipeline>>

\* pause(): self.is_paused = True;  resume(): self.is_paused = False
InspPause(p) ==
  /\ insp' = [insp EXCEPT !.is_paused = p]
  /\ UNCHANGED <<inspFrame, pipeline>>

\* _patrol_loop: self._transition_state(InspectionState.CHECKING_PIPELINE)
I_Begin ==
  /\ insp.pc = "begin"
  /\ insp' = [insp EXCEPT !.state = "checking_pipeline", !.pc = "check"]
  /\ UNCHANGED <<inspFrame, pipeline>>

\* _ensure_yolo_pipeline_running: if last_message_time and
\* time_since_last < 10: self.pipeline_status = 'running'; return True.
\* Else self._transition_state(InspectionState.STARTING_PIPELINE)
I_Check ==
  /\ insp.pc = "check"
  /\ insp' =
       IF pipeline.last_message_time # Null
            /\ now - pipeline.last_message_time < RecentSeconds
       THEN [insp EXCEPT !.pipeline_status = "running", !.recent = TRUE,
                         !.pc = "run"]
       ELSE [insp EXCEPT !.state = "starting_pipeline", !.pc = "start_cmd"]
  /\ UNCHANGED <<inspFrame, pipeline>>

\* success = self.cloud_mqtt.publish('nokia/safety/control/command', ...);
\* if not success: return False;  start_time = time.time()
I_StartCmd(ok) ==
  /\ insp.pc = "start_cmd"
  /\ insp' = IF ok
             THEN [insp EXCEPT !.cmd_sent = TRUE, !.start_time = now,
                               !.pc = "poll"]
             ELSE [insp EXCEPT !.pc = "fail"]
  /\ UNCHANGED <<inspFrame, pipeline>>

\* while (time.time() - start_time) < timeout:
\*   if yolo_state.get('enabled') and
\*      yolo_state.get('total_violations') is not None: return True
\*   time.sleep(1)
\* after the loop: return False
I_Poll ==
  /\ insp.pc = "poll"
  /\ IF now - insp.start_time < PipelineStartTimeout
     THEN /\ pipeline.enabled /\ pipeline.total_violations # Null
          /\ insp' = [insp EXCEPT !.pipeline_status = "running", !.pc = "run"]
     ELSE insp' = [insp EXCEPT !.pc = "fail"]
  /\ UNCHANGED <<inspFrame, pipeline>>

\* self._handle_error("YOLO pipeline start failed"): the state ERROR, the
\* session's status 'error', the on_error callback; return
I_Fail ==
  /\ insp.pc = "fail"
  /\ insp' = [insp EXCEPT !.state = "error",
                          !.session = "error",
                          !.error_events = insp.error_events + 1,
                          !.pc = "done"]
  /\ UNCHANGED <<inspFrame, pipeline>>

\* self._transition_state(InspectionState.RUNNING); the for loop begins
I_Run ==
  /\ insp.pc = "run"
  /\ insp' = [insp EXCEPT !.state = "running", !.idx = 0, !.pc = "loop"]
  /\ UNCHANGED <<inspFrame, pipeline>>

\* for idx, waypoint in enumerate(waypoints):
\*   if self.stop_requested: break
I_Loop ==
  /\ insp.pc = "loop"
  /\ insp' = [insp EXCEPT !.pc =
       IF insp.idx >= InspWaypoints \/ insp.stop_requested
       THEN "complete" ELSE "pause"]
  /\ UNCHANGED <<inspFrame, pipeline>>

\* while self.is_paused and not self.stop_requested: time.sleep(0.5)
PauseOver(paused, stop) == ~(paused /\ ~stop)

\* the pause loop is left; self.current_waypoint_index = idx
I_Pause ==
  /\ insp.pc = "pause"
  /\ PauseOver(insp.is_paused, insp.stop_requested)
  /\ insp' = [insp EXCEPT !.current_waypoint_index = insp.idx, !.pc = "goto"]
  /\ UNCHANGED <<inspFrame, pipeline>>

\* _execute_waypoint_inspection: the state MOVING_TO_WAYPOINT;
\* self.mqtt_client.goto_waypoint(waypoint_name); time.sleep(10)
I_Goto ==
  /\ insp.pc = "goto"
  /\ insp' = [insp EXCEPT !.state = "moving_to_waypoint",
                          !.gotos = insp.gotos + 1,
                          !.pc = "inspect"]
  /\ UNCHANGED <<inspFrame, pipeline>>

\* the state INSPECTING; the speech; _monitor_violations (left at once when
\* stop is requested); the result is shown, spoken and logged
I_Inspect ==
  /\ insp.pc = "inspect"
  /\ insp' = [insp EXCEPT !.state = "inspecting",
                          !.inspections = insp.inspections + 1,
                          !.pc = "wp_done"]
  /\ UNCHANGED <<inspFrame, pipeline>>

\* self._transition_state(InspectionState.WAYPOINT_COMPLETE); the next
\* turn of the for loop
I_WaypointDone ==
  /\ insp.pc = "wp_done"
  /\ insp' = [insp EXCEPT !.state = "waypoint_complete",
                          !.idx = insp.idx + 1,
                          !.pc = "loop"]
  /\ UNCHANGED <<inspFrame, pipeline>>

\* after the for loop: the state COMPLETED; the session's status
\* 'completed'; the on_complete callback
I_Complete ==
  /\ insp.pc = "complete"
  /\ insp' = [insp EXCEPT !.state = "completed",
                          !.session = "completed",
                          !.complete_events = insp.complete_events + 1,
                          !.pc = "done"]
  /\ UNCHANGED <<inspFrame, pipeline>>

\* app.py's yolo_state before any message: enabled, no last_message_time,
\* total_violations 0
InspIdle ==
  /\ insp = NoInsp
  /\ pipeline = [enabled |-> TRUE, last_message_time |-> Null,
                 total_violations |-> 0]

RunIdle ==
  /\ error_events = [o \in OrchIds |-> 0]
  /\ gate = [o \in OrchIds |-> NoGate]
  /\ cmd_failed = [o \in OrchIds |-> FALSE]
  /\ last_event = [o \in OrchIds |-> NoEvent]
  /\ InspIdle

\* the other components before anything has happened to them
ExtIdle ==
  /\ YoloIdle /\ ClampIdle
  /\ now = 0
  /\ DebouncerIdle /\ violation_threshold = 3
  /\ LinksIdle /\ link_robot = [l \in Links |-> 0]
  /\ RunIdle

\* ------------------------------------------------------ specifications
Route(n, lc, d) ==
  [NoRoute EXCEPT !.n = n, !.loop_count = lc, !.dwell = [i \in 1..n |-> d]]

InitFields ==
  /\ state = [o \in OrchIds |-> "idle"]
  /\ current_waypoint_index = [o \in OrchIds |-> 0]
  /\ current_waypoint = [o \in OrchIds |-> NoWaypoint]
  /\ is_paused = [o \in OrchIds |-> FALSE]
  /\ stop_requested = [o \in OrchIds |-> FALSE]
  /\ current_loop = [o \in OrchIds |-> 0]
  /\ is_low_battery = [o \in OrchIds |-> FALSE]
  /\ return_after_current = [o \in OrchIds |-> FALSE]
  /\ waiting_for_arrival = [o \in OrchIds |-> FALSE]
  /\ wpc = [o \in OrchIds |-> "none"]
  /\ keep_looping = [o \in OrchIds |-> FALSE]
  /\ retry_count = [o \in OrchIds |-> 0]
  /\ dwell_i = [o \in OrchIds |-> 0]
  /\ apiPc = [o \in OrchIds |-> "idle"]
  /\ evPc = [o \in OrchIds |-> "idle"]
  /\ patrols = [r \in Robots |-> NoEntry]
  /\ regPc = "free"
  /\ regOrch = 1
  /\ wpGotos = [o \in OrchIds |-> 0]
  /\ stopResults = [o \in OrchIds |-> <<>>]
  /\ stopCmds = [o \in OrchIds |-> 0]
  /\ completeEvents = [o \in OrchIds |-> 0]
  /\ exhausted = [o \in OrchIds |-> FALSE]
  /\ lb_preempt = [o \in OrchIds |-> "no"]
  /\ sp_refused = {}
  /\ late_insert = [o \in OrchIds |-> FALSE]

\* one PatrolManager constructed with the route, used without the registry
Constructed(rt) ==
  /\ robot_id = [o \in OrchIds |-> IF o = 1 THEN 1 ELSE 0]
  /\ route = [o \in OrchIds |-> IF o = 1 THEN rt ELSE NoRoute]
  /\ on_complete = [o \in OrchIds |-> IF o = 1 THEN "listener" ELSE "none"]

\* the worker's steps, grouped by what a scenario needs for them to run:
\* the loops and the arrival wait with its timeout
WorkerCore(o) ==
  \/ W_Begin(o) \/ W_Outer(o) \/ W_Reset(o) \/ W_Inner(o) \/ W_ChkPause(o)
  \/ W_ExecGoto(o) \/ W_ExecWait(o) \/ W_ExecState(o)
  \/ W_Wait(o) \/ W_Exhaust(o) \/ W_AfterWait(o)
  \/ W_Advance(o) \/ W_LoopDone(o) \/ W_Finish(o)

\* waypoint_max_retries > 0
WorkerRetry(o) == W_RetryGoto(o) \/ W_RetryWait(o)

\* an arrival was delivered
WorkerArrived(o) == W_Actions(o) \/ W_ChkReturn(o)

\* a finite loop_count
WorkerComplete(o) == W_FinGoto(o) \/ W_FinIdle(o) \/ W_FinEmit(o)

\* an exception in the run loop
WorkerError(o) == W_ErrState(o) \/ W_ErrEmit(o)

\* return_after_current was set by a battery update
WorkerReturn(o) == W_RetGoto(o) \/ W_RetStop(o)

Worker(o) ==
  \/ WorkerCore(o) \/ WorkerRetry(o) \/ WorkerArrived(o) \/ W_DwellLoop(o)
  \/ WorkerReturn(o) \/ WorkerComplete(o) \/ WorkerError(o)

StopSteps(o) == StopFlag(o) \/ StopState(o) \/ StopCmd(o)

LowBattery(o) == LbState(o) \/ LbFlag(o) \/ LbStop(o) \/ LbGoto(o)

\* ---- the registry: routes of one waypoint and one loop, started, stopped
\* and restarted; the robot's events reach the registered instance
RegistryRoutes == {Route(1, Null, 0), Route(1, Null, Null)}

Init ==
  /\ InitFields
  /\ ExtIdle
  /\ low_battery_action = "complete_current"
  /\ waypoint_max_retries = 0
  /\ robot_id = [o \in OrchIds |-> 0]
  /\ route = [o \in OrchIds |-> NoRoute]
  /\ on_complete = [o \in OrchIds |-> "none"]

\* the instance that self.patrols.get(robot_id), read without the lock, gives
Registered(o) == \E r \in Robots : patrols[r] = o

Next ==
  \/ \E r \in Robots, rt \in RegistryRoutes, c \in BOOLEAN :
       StartPatrol(r, rt, c)
  \/ \E r \in Robots, c \in BOOLEAN : StartPatrolRefused(r, c)
  \/ StartInsert
  \/ \E r \in Robots : StopPatrol(r)
  \/ StopDel
  \/ \E o \in OrchIds :
       \/ ViaRegistry(o) /\ StopBegin(o)
       \/ Registered(o) /\ Arrival(o)
       \/ StopSteps(o)
       \/ WorkerCore(o) \/ WorkerArrived(o) \/ WorkerComplete(o)
       \/ WorkerError(o)

Spec == Init /\ [][Next]_vars

\* ---- the registry with battery updates: the first run of a robot, started
\* by start_patrol under either low_battery_action; the robot's arrivals and
\* battery levels handed to the registered instance; stop_patrol
BatteryRoutes == {Route(n, 1, 0) : n \in 1..MaxWaypoints}

InitBattery ==
  /\ InitFields
  /\ ExtIdle
  /\ low_battery_action \in {"stop_immediately", "complete_current"}
  /\ waypoint_max_retries = 0
  /\ robot_id = [o \in OrchIds |-> 0]
  /\ route = [o \in OrchIds |-> NoRoute]
  /\ on_complete = [o \in OrchIds |-> "none"]

NextBattery ==
  \/ \E r \in Robots, rt \in BatteryRoutes :
       Unconstructed = OrchIds /\ StartPatrol(r, rt, TRUE)
  \/ \E r \in Robots : StartPatrolRefused(r, TRUE)
  \/ StartInsert
  \/ \E r \in Robots : StopPatrol(r)
  \/ StopDel
  \/ \E o \in OrchIds :
       \/ ViaRegistry(o) /\ StopBegin(o)
       \/ Registered(o) /\ Arrival(o)
       \/ Registered(o) /\ BatteryUpdate(o, TRUE)
       \/ StopSteps(o) \/ LowBattery(o)
       \/ WorkerCore(o) \/ WorkerArrived(o) \/ WorkerReturn(o)
       \/ WorkerComplete(o)

SpecBattery == InitBattery /\ [][NextBattery]_vars

\* ---- the two locks: the first run of a robot, with start_patrol,
\* stop_patrol, pause_patrol, resume_patrol and the robot's arrivals on the
\* registry and the worker's completion callback. A thread inside a lock section keeps running, and a thread
\* waiting for a lock gets it if the lock is free again and again.
LockRoutes == {Route(n, 1, 0) : n \in 1..MaxWaypoints}

NextLocks ==
  \/ \E r \in Robots, rt \in LockRoutes :
       Unconstructed = OrchIds /\ StartPatrol(r, rt, TRUE)
  \/ StartInsert
  \/ \E r \in Robots : StopPatrol(r)
  \/ StopDel
  \/ \E o \in OrchIds :
       \/ ViaRegistry(o) /\ StopBegin(o)
       \/ Registered(o) /\ Arrival(o)
       \/ Registered(o) /\ PauseBegin(o)
       \/ PauseEnd(o)
       \/ Registered(o) /\ ResumeBegin(o)
       \/ ResumeEnd(o)
       \/ StopSteps(o)
       \/ WorkerCore(o) \/ WorkerArrived(o) \/ WorkerComplete(o)

LockFairness ==
  /\ WF_vars(StartInsert)
  /\ WF_vars(StopDel)
  /\ \A o \in OrchIds :
       /\ WF_vars(StopSteps(o))
       /\ WF_vars(PauseEnd(o))
       /\ WF_vars(ResumeEnd(o))
       /\ SF_vars(ViaRegistry(o) /\ StopBegin(o))
       /\ SF_vars(W_FinEmit(o))

SpecLocks == Init /\ [][NextLocks]_vars /\ LockFairness

\* ---- one PatrolManager used directly: start(), stop() twice, arrivals
\* and battery updates, on finite routes
OrchRoutes ==
  {Route(n, 1, 0) : n \in 1..MaxWaypoints}
    \cup {Route(1, 1, Null), Route(1, 1, 1)}

InitOrch ==
  /\ InitFields
  /\ ExtIdle
  /\ low_battery_action \in {"stop_immediately", "complete_current"}
  /\ waypoint_max_retries \in 0..1
  /\ \E rt \in OrchRoutes : Constructed(rt)

NextOrch ==
  \E o \in OrchIds :
    \/ Start(o) \/ StopBegin(o) \/ Arrival(o)
    \/ \E low \in BOOLEAN : BatteryUpdate(o, low)
    \/ StopSteps(o) \/ LowBattery(o) \/ Worker(o)

SpecOrch == InitOrch /\ [][NextOrch]_vars

\* ---- one PatrolManager whose waypoints are never reached: start() and
\* the worker alone, no arrival, no stop, no battery update
TimeoutRoutes == {Route(n, 1, 0) : n \in 1..MaxWaypoints}

InitTimeout ==
  /\ InitFields
  /\ ExtIdle
  /\ low_battery_action = "complete_current"
  /\ waypoint_max_retries \in 0..MaxRetries
  /\ \E rt \in TimeoutRoutes : Constructed(rt)

NextTimeout ==
  \E o \in OrchIds :
    Start(o) \/ WorkerCore(o) \/ WorkerRetry(o) \/ WorkerComplete(o)

SpecTimeout == InitTimeout /\ [][NextTimeout]_vars

\* ---- one PatrolManager on a one-waypoint route that loops for ever
\* (loop_count 0 or negative): start(), arrivals, stop(); the worker
\* thread keeps running and an arrival that can be delivered is delivered
LoopRoutes == {Route(1, lc, 0) : lc \in {0, -1}}

InitLoop ==
  /\ InitFields
  /\ ExtIdle
  /\ low_battery_action = "complete_current"
  /\ waypoint_max_retries = 0
  /\ \E rt \in LoopRoutes : Constructed(rt)

LoopWorker(o) == WorkerCore(o) \/ WorkerArrived(o)

NextLoop ==
  \E o \in OrchIds :
    Start(o) \/ StopBegin(o) \/ Arrival(o) \/ StopSteps(o) \/ LoopWorker(o)

SpecLoop ==
  /\ InitLoop
  /\ [][NextLoop]_vars
  /\ \A o \in OrchIds : WF_vars(LoopWorker(o)) /\ WF_vars(Arrival(o))

\* ---- one PatrolManager used directly, on an empty route or on a route
\* of two waypoints followed twice: start(), pause(), resume(), stop(),
\* arrivals and arrival timeouts
PauseRoutes == {Route(0, 1, 0), Route(MaxWaypoints, 2, 0)}

InitPause ==
  /\ InitFields
  /\ ExtIdle
  /\ low_battery_action = "complete_current"
  /\ waypoint_max_retries = 1
  /\ \E rt \in PauseRoutes : Constructed(rt)

NextPause ==
  \E o \in OrchIds :
    \/ Start(o) \/ StartEmpty(o) \/ Arrival(o)
    \/ PauseBegin(o) \/ PauseEnd(o) \/ ResumeBegin(o) \/ ResumeEnd(o)
    \/ StopBegin(o) \/ StopSteps(o)
    \/ WorkerCore(o) \/ WorkerRetry(o) \/ WorkerArrived(o)
    \/ WorkerComplete(o)

SpecPause == InitPause /\ [][NextPause]_vars

\* ---- one PatrolManager on a route of one waypoint with the detection
\* gate, a tts_message and a display: start(), arrivals, timeouts, stop(),
\* the snapshots the gate polls and the results of publishing, as time
\* passes
GateRoutes ==
  {[Route(1, 1, 1) EXCEPT !.detection_enabled = TRUE,
      !.violation_action = a, !.tts_message = TRUE, !.display = TRUE] :
     a \in {"tts", "webview", "video", "none"}}

InitGate ==
  /\ InitFields
  /\ ExtIdle
  /\ low_battery_action = "complete_current"
  /\ waypoint_max_retries = 0
  /\ \E rt \in GateRoutes : Constructed(rt)

NextGate ==
  \/ Tick
  \/ \E o \in OrchIds :
       \/ Start(o) \/ Arrival(o) \/ StopBegin(o) \/ StopSteps(o)
       \/ WorkerCore(o) \/ WorkerArrived(o) \/ W_DwellLoop(o)
       \/ WorkerComplete(o)
       \/ W_GateBegin(o) \/ W_GateNotes(o) \/ W_GateEmit(o)
       \/ \E v \in 0..1, ok \in BOOLEAN : W_GatePoll(o, v, ok)
       \/ \E ok \in BOOLEAN : W_Command(o, ok)

SpecGate == InitGate /\ [][NextGate]_vars

\* ---- one PatrolManager on a route of two waypoints followed twice, with
\* a dwell at each waypoint and either the detection gate or a tts_message:
\* start(), arrivals, timeouts with one retry, pause(), resume(), stop();
\* the clock stands still, so that a gate ends by a stop request only; the
\* worker thread keeps running
HaltRoutes ==
  {[Route(MaxWaypoints, 2, 1) EXCEPT !.detection_enabled = TRUE,
      !.violation_action = "tts"],
   [Route(MaxWaypoints, 2, 1) EXCEPT !.tts_message = TRUE]}

InitHalt ==
  /\ InitFields
  /\ ExtIdle
  /\ low_battery_action = "complete_current"
  /\ waypoint_max_retries = 1
  /\ \E rt \in HaltRoutes : Constructed(rt)

HaltWorker(o) ==
  \/ WorkerCore(o) \/ WorkerRetry(o) \/ WorkerArrived(o) \/ W_DwellLoop(o)
  \/ WorkerComplete(o)
  \/ W_GateBegin(o) \/ W_GateNotes(o) \/ W_GateEmit(o)
  \/ \E v \in 0..1, ok \in BOOLEAN : W_GatePoll(o, v, ok)
  \/ \E ok \in BOOLEAN : W_Command(o, ok)

NextHalt ==
  \E o \in OrchIds :
    \/ Start(o) \/ Arrival(o)
    \/ PauseBegin(o) \/ PauseEnd(o) \/ ResumeBegin(o) \/ ResumeEnd(o)
    \/ StopBegin(o) \/ StopSteps(o)
    \/ HaltWorker(o)

SpecHalt ==
  /\ InitHalt
  /\ [][NextHalt]_vars
  /\ \A o \in OrchIds : WF_vars(HaltWorker(o))

\* ---- one PatrolManager on a route of two waypoints followed once, with
\* a tts_message at each waypoint and one retry: start(), the robot's
\* waypoint events of every type and status, naming either waypoint, and
\* arrival timeouts
EventRoutes == {[Route(MaxWaypoints, 1, 0) EXCEPT !.tts_message = TRUE]}

InitEvent ==
  /\ InitFields
  /\ ExtIdle
  /\ low_battery_action = "complete_current"
  /\ waypoint_max_retries = 1
  /\ \E rt \in EventRoutes : Constructed(rt)

NextEvent ==
  \E o \in OrchIds :
    \/ Start(o)
    \/ \E loc \in 1..MaxWaypoints :
         \/ WaypointEvent(o, "arrived", loc, "none")
         \/ \E status \in {"start", "complete", "abort", "fail"} :
              WaypointEvent(o, "goto", loc, status)
    \/ WorkerCore(o) \/ WorkerRetry(o) \/ WorkerArrived(o)
    \/ WorkerComplete(o)
    \/ \E ok \in BOOLEAN : W_Command(o, ok)

SpecEvent == InitEvent /\ [][NextEvent]_vars

\* ---- the aggregate detection state: summary and counts messages with
\* and without a robot_id
PatrolIdle ==
  /\ InitFields
  /\ low_battery_action = "complete_current"
  /\ waypoint_max_retries = 0
  /\ robot_id = [o \in OrchIds |-> 0]
  /\ route = [o \in OrchIds |-> NoRoute]
  /\ on_complete = [o \in OrchIds |-> "none"]

InitIdle == PatrolIdle /\ ExtIdle

NextYolo ==
  \E kind \in {"summary", "counts"}, v \in RawCounts,
     q \in RawCounts \cup {Null}, rid \in YoloRobots \cup {0} :
    ProcessYoloTopic(kind, v, q, rid)

SpecYolo == InitIdle /\ [][NextYolo]_vars

\* ---- one YoloInspectionPatrolManager on a route of two waypoints:
\* start(), stop(), pause(), resume(), messages of the detection pipeline,
\* the pipeline-start command published or not, as time passes.  The state
\* the provider returns begins as app.py makes it or with no count yet,
\* with the pipeline enabled or not, with or without a last message
InitInsp ==
  /\ PatrolIdle /\ YoloIdle /\ ClampIdle
  /\ now = 0
  /\ DebouncerIdle /\ violation_threshold = 3
  /\ LinksIdle /\ link_robot = [l \in Links |-> 0]
  /\ error_events = [o \in OrchIds |-> 0]
  /\ gate = [o \in OrchIds |-> NoGate]
  /\ cmd_failed = [o \in OrchIds |-> FALSE]
  /\ last_event = [o \in OrchIds |-> NoEvent]
  /\ insp = NoInsp
  /\ pipeline \in [enabled : BOOLEAN, last_message_time : {Null, 0},
                   total_violations : {Null, 0}]

NextInsp ==
  \/ Tick
  \/ InspStart \/ InspStop
  \/ \E p \in BOOLEAN : InspPause(p)
  \/ \E v \in 0..1 : PipelineMessage(v)
  \/ I_Begin \/ I_Check
  \/ \E ok \in BOOLEAN : I_StartCmd(ok)
  \/ I_Poll \/ I_Fail \/ I_Run \/ I_Loop \/ I_Pause \/ I_Goto \/ I_Inspect
  \/ I_WaypointDone \/ I_Complete

SpecInsp == InitInsp /\ [][NextInsp]_vars

\* ---- _clamp_violations on every pair of raw integers of the range
InitClamp ==
  /\ PatrolIdle /\ YoloIdle
  /\ now = 0
  /\ DebouncerIdle /\ violation_threshold = 3
  /\ LinksIdle /\ link_robot = [l \in Links |-> 0]
  /\ RunIdle
  /\ clamp_args \in (-2..MaxCount) \X (-2..MaxCount)
  /\ clamp_result = <<>>

SpecClamp == InitClamp /\ [][ApplyClamp]_vars

\* ---- one ViolationDebouncer: observations of one patrol at two
\* waypoints, with the timestamp left out or supplied, as time passes
InitDebounce ==
  /\ PatrolIdle /\ YoloIdle /\ ClampIdle
  /\ now = 0
  /\ DebouncerIdle
  /\ violation_threshold \in {2, 3}
  /\ LinksIdle /\ link_robot = [l \in Links |-> 0]
  /\ RunIdle

NextDebounce ==
  \/ Tick
  \/ \E p \in DebPatrols, w \in DebWaypoints, c \in Confidences,
        ts \in (0..MaxTime) \cup {Null} :
       AddObservation(p, w, c, ts)

SpecDebounce == InitDebounce /\ [][NextDebounce]_vars

\* ---- one MQTTRobotClient used by two threads that call connect() and
\* ensure_connected(), with the broker's callbacks, as time passes
InitLink ==
  /\ PatrolIdle /\ YoloIdle /\ ClampIdle
  /\ now = 0
  /\ DebouncerIdle /\ violation_threshold = 3
  /\ LinksIdle
  /\ link_robot = [l \in Links |-> IF l = 1 THEN 1 ELSE 0]
  /\ RunIdle

NextLink ==
  \/ Tick
  \/ \E c \in Callers, l \in Links : ConnectCall(c, l) \/ EnsureCall(c, l)
  \/ \E c \in Callers :
       \/ ConnectSetup(c) \/ ConnectDial(c) \/ ConnectFin(c)
       \/ EnsureReconnect(c) \/ EnsureFallback(c)
       \/ EnsureWait(c) \/ FallbackWait(c)
  \/ \E l \in Links : OnConnect(l) \/ OnDisconnect(l)

SpecLink == InitLink /\ [][NextLink]_vars

\* ---- the MQTTManager: threads calling add_robot for the robot
NextAdd ==
  \/ Tick
  \/ \E c \in Callers, r \in Robots : AddRobot(c, r)
  \/ \E c \in Callers :
       \/ ConnectSetup(c) \/ ConnectDial(c) \/ ConnectFin(c)
       \/ EnsureReconnect(c) \/ EnsureFallback(c)
       \/ EnsureWait(c) \/ FallbackWait(c)
       \/ AddWait(c) \/ AddDisconnect(c)
  \/ \E l \in Links : OnConnect(l) \/ OnDisconnect(l)

SpecAdd == InitIdle /\ [][NextAdd]_vars

\* =================================================================
\* Properties
\* =================================================================

\* C1: under Spec, for every robot and every interleaving of start_patrol,
\* stop_patrol and natural completions, the registry holds at most one
\* PatrolManager for the robot: while the robot has an entry no step puts
\* another instance in its place and no step constructs an instance for it,
\* so a start_patrol for it can only return False.
C1_OnePatrolPerRobot ==
  [][\A r \in Robots :
       patrols[r] # NoEntry =>
         /\ patrols'[r] \in {patrols[r], NoEntry}
         /\ \A o \in OrchIds : robot_id[o] # r => robot_id'[o] # r]_vars

\* C1 witness: a start_patrol was refused as already running while the
\* second instance, started after the first was stopped, holds the entry
C1_Witness ==
  /\ "already_running" \in sp_refused
  /\ patrols[1] = 2
  /\ robot_id[1] = 1

\* C7: under Spec, once a PatrolManager has reached Stopped (stop_patrol
\* has finished) or Error (its error event has been emitted), the registry
\* no longer holds it: get_patrol_status gives None, the active count
\* excludes it and start_patrol is not refused as already running.
C7_NoEntryAfterStopOrError ==
  \A o \in OrchIds :
    (/\ robot_id[o] # 0
     /\ \/ state[o] = "stopped" /\ apiPc[o] = "idle" /\ regPc = "free"
        \/ state[o] = "error" /\ wpc[o] = "errored")
      => /\ patrols[robot_id[o]] # o
         /\ (\A p \in OrchIds \ {o} : robot_id[p] = 0) =>
              /\ NoStatus(robot_id[o])
              /\ ActivePatrolCount = 0
              /\ ~AlreadyRunning(robot_id[o])

\* C2: under SpecOrch, for a PatrolManager whose run is in progress, two
\* successive stop() calls return True and then False and publish exactly
\* one stop-movement command, whatever the worker does in between.
C2_StopTwice ==
  \A o \in OrchIds :
    (Len(stopResults[o]) = 2 /\ stopResults[o][1])
      => (~stopResults[o][2] /\ stopCmds[o] = 1)

\* C3: under SpecOrch, once the arrival-timeout retries of a waypoint are
\* exhausted the state is Error and the worker has left the run loop: it
\* runs no waypoint actions and starts no later waypoint.
C3_ExhaustedIsError ==
  \A o \in OrchIds :
    exhausted[o] =>
      /\ state[o] = "error"
      /\ wpc[o] \in {"err_emit", "errored"}

\* C4: under SpecTimeout, with waypoint_max_retries = N and no arrival, no
\* pause and no stop, the worker has published exactly N+1 gotos for the
\* waypoint when it emits the reachability error, and never more than N+1.
C4_GotosBeforeError ==
  \A o \in OrchIds :
    /\ wpGotos[o] <= waypoint_max_retries + 1
    /\ wpc[o] = "exhaust" => wpGotos[o] = waypoint_max_retries + 1

\* C4 witness: with N = MaxRetries the worker is about to emit the error
\* after MaxRetries + 1 gotos for the waypoint
C4_Witness ==
  /\ waypoint_max_retries = MaxRetries
  /\ wpc[1] = "exhaust"
  /\ wpGotos[1] = MaxRetries + 1

\* C5: under SpecOrch, in every reachable state where the state is Running
\* or Waiting, 0 <= current_waypoint_index < total_waypoints.
C5_IndexInRange ==
  \A o \in OrchIds :
    (robot_id[o] # 0 /\ state[o] \in {"running", "waiting"})
      => (0 <= current_waypoint_index[o]
          /\ current_waypoint_index[o] < total_waypoints(o))

\* C6: under SpecOrch, after stop() has returned True (and with no low
\* battery handling involved) no step publishes a goto from the worker,
\* starts a further waypoint or emits the completion event, and the state
\* stays Stopped.
C6_NothingAfterStop ==
  [][\A o \in OrchIds :
       (StopReturnedTrue(o) /\ ~is_low_battery[o] /\ ~return_after_current[o])
         => /\ ~WorkerGoto(o)
            /\ ~W_ChkPause(o)
            /\ completeEvents'[o] = completeEvents[o]
            /\ state'[o] = "stopped"]_vars

\* C8: under SpecOrch, a route of 2 waypoints with loop_count 1 and dwell 0
\* whose two arrivals are delivered (no timeout exhausted, no stop, no low
\* battery) completes at most once, and at its completion current_loop = 1
\* and total_loops = 1.
C8_CompletionOfOneLoop ==
  \A o \in OrchIds :
    (/\ total_waypoints(o) = 2 /\ route[o].loop_count = 1
     /\ ~exhausted[o] /\ stopResults[o] = <<>> /\ ~return_after_current[o])
      => /\ completeEvents[o] <= 1
         /\ completeEvents[o] = 1 =>
              (current_loop[o] = 1 /\ total_loops(o) = 1)

\* C9: under SpecOrch, when a low battery update reaches a PatrolManager
\* configured with stop_immediately while its worker waits for an arrival,
\* the waypoint's actions are not executed and, once the handler has
\* published the return goto, the worker publishes no waypoint goto.
C9_LowBatteryPreempts ==
  [][\A o \in OrchIds :
       /\ lb_preempt[o] \in {"handling", "returned"} => ~W_Actions(o)
       /\ lb_preempt[o] = "returned" => ~WaypointGoto(o)]_vars

\* C10: under SpecLoop, with loop_count <= 0 the run never ends on its own:
\* no completion event is emitted, the state never returns to Idle once the
\* run has started, and from the start of the worker the loop counter grows
\* past MaxLoops completed loops unless a stop is requested.
C10_NeverSelfTerminates ==
  /\ [](\A o \in OrchIds :
          (robot_id[o] # 0 /\ loop_count(o) <= 0) =>
            /\ completeEvents[o] = 0
            /\ wpc[o] # "none" => state[o] # "idle"
            /\ wpc[o] \notin {"fin_goto", "fin_idle", "fin_emit"})
  /\ \A o \in OrchIds :
       (wpc[o] = "begin" /\ loop_count(o) <= 0)
         ~> (stop_requested[o] \/ current_loop[o] > MaxLoops)

\* C10 witness: MaxLoops loops completed with every arrival delivered and
\* no stop; the run is still going and has emitted no completion
C10_Witness ==
  /\ loop_count(1) <= 0
  /\ current_loop[1] = MaxLoops + 1
  /\ ~exhausted[1] /\ stopResults[1] = <<>> /\ ~stop_requested[1]
  /\ completeEvents[1] = 0
  /\ state[1] = "waiting"

\* C11: under SpecYolo, after any sequence of summary and counts messages,
\* with or without a robot_id, the exposed aggregate state satisfies
\* 0 <= total_violations <= total_people.
C11_AggregateClamped ==
  /\ 0 <= yolo_state.total_violations
  /\ yolo_state.total_violations <= yolo_state.total_people

\* C12: under SpecClamp, for all integer inputs (v, p) the clamp returns
\* (min(max(v,0), max(p,0)), max(p,0)), so that 0 <= violations <= people.
C12_ClampResult ==
  clamp_result # <<>> =>
    LET v == clamp_args[1]
        q == clamp_args[2]
        v0 == IF v > 0 THEN v ELSE 0
        q0 == IF q > 0 THEN q ELSE 0
    IN  /\ clamp_result = <<IF v0 < q0 THEN v0 ELSE q0, q0>>
        /\ 0 <= clamp_result[1] /\ clamp_result[1] <= clamp_result[2]

\* C12 witness: the raw pair (7, 3) has been clamped to (3, 3)
C12_Witness == clamp_args = <<7, 3>> /\ clamp_result = <<3, 3>>

\* C13: under SpecDebounce, while every observation of a patrol so far had
\* the same confidence, at or above the minimum, and all of them are in the
\* window, the k-th observation returns should_report = FALSE for k < T and
\* TRUE for k = T, for violation_threshold = T >= 2.
C13_ReportAtThreshold ==
  \A p \in DebPatrols :
    (/\ obs_count[p] >= 1
     /\ Len(debouncer_history[p]) = obs_count[p]
     /\ \A i \in 1..Len(debouncer_history[p]) :
          debouncer_history[p][i].confidence
            = debouncer_history[p][1].confidence)
      => (deb_result[p].should_report
            <=> obs_count[p] >= violation_threshold)

\* C13 witness: with T = 3 the third of three equal observations inside the
\* window was reported
C13_Witness ==
  /\ violation_threshold = 3
  /\ obs_count[1] = 3 /\ Len(debouncer_history[1]) = 3
  /\ \A i \in 1..3 :
       /\ debouncer_history[1][i].confidence = 90
       /\ debouncer_history[1][i].timestamp >= now - DebounceWindow
  /\ deb_result[1].should_report

\* C14: under SpecDebounce, an observation rejected as an outlier returns
\* should_report = FALSE and does not stay in the window: the window after
\* the call is the pruned old window, so the observation is neither counted
\* nor part of later means and deviations.
C14_OutlierLeavesNoTrace ==
  [][\A p \in DebPatrols :
       (obs_count'[p] # obs_count[p] /\ deb_result'[p].reason = "outlier")
         => /\ ~deb_result'[p].should_report
            /\ debouncer_history'[p] =
                 PopOld(debouncer_history[p], now - DebounceWindow)]_vars

\* C15: under SpecDebounce, after every insert into a patrol's window,
\* whatever the supplied timestamp, the entries are in non-decreasing
\* timestamp order and none is older than now - debounce_window_seconds.
C15_WindowOrderedAndPruned ==
  [][\A p \in DebPatrols :
       (obs_count'[p] # obs_count[p]
          /\ deb_result'[p].reason # "low_confidence")
         => LET h == debouncer_history'[p] IN
            /\ \A i \in 1..Len(h) : h[i].timestamp >= now - DebounceWindow
            /\ \A i \in 1..Len(h), j \in 1..Len(h) :
                 i < j => h[i].timestamp <= h[j].timestamp]_vars

\* C16: under SpecDebounce, the window is per (patrol, waypoint): a report
\* for a waypoint rests on at least violation_threshold observations of
\* that waypoint, and the stats of a waypoint count only its observations.
C16_PerWaypointWindow ==
  \A p \in DebPatrols :
    LET CountAt(w) ==
          Cardinality({i \in 1..Len(debouncer_history[p]) :
                         debouncer_history[p][i].waypoint = w})
    IN  /\ deb_result[p].should_report
             => CountAt(deb_result[p].waypoint) >= violation_threshold
        /\ \A w \in DebWaypoints : StatsCount(p, w) = CountAt(w)

\* C17: under SpecLink, for one MQTTRobotClient any two connection attempts
\* (a fresh connect() or the reconnect inside ensure_connected()), whatever
\* threads start them, begin at least 2 seconds apart.
C17_AttemptsSpaced ==
  \A l \in Links :
    \A i \in 1..Len(attempts[l]), j \in 1..Len(attempts[l]) :
      i < j => attempts[l][j] - attempts[l][i] >= 2

\* C17 witness: a second attempt on the link began exactly 2 seconds after
\* the first, while a thread that asked in between was refused
C17_Witness ==
  /\ Len(attempts[1]) >= 2
  /\ attempts[1][2] - attempts[1][1] = 2
  /\ \E c \in Callers : cpc[c] = "idle" /\ cres[c] = "false"

\* C18: under SpecLink, connect() called on a link that is connected starts
\* no new attempt, however long after the previous attempt it is called: it
\* returns at once, so that the link stays connected on the same client.
C18_ConnectIdempotent ==
  [][\A c \in Callers, l \in Links :
       (connected[l] /\ ConnectCall(c, l))
         => /\ attempts'[l] = attempts[l]
            /\ cpc'[c] = "idle"]_vars

\* C19: under SpecAdd, (a) a link is in robot_clients only after the broker
\* confirmed its connection; (b) a link whose add_robot timed out is not in
\* robot_clients, is disconnected with its loop stopped, and the call that
\* gave up did not return True and left robot_clients as it was; (c)
\* add_robot for a robot whose link is connected returns True and neither
\* makes a link nor starts an attempt.
C19_AddRobot ==
  /\ [](\A r \in Robots :
          robot_clients[r] # NoLink => confirmed[robot_clients[r]])
  /\ [](\A l \in add_failed :
          /\ \A r \in Robots : robot_clients[r] # l
          /\ ~connected[l] /\ ~loop_started[l])
  /\ [][\A c \in Callers :
          AddDisconnect(c)
            => /\ cres'[c] # "true"
               /\ robot_clients' = robot_clients]_vars
  /\ [][\A c \in Callers, r \in Robots :
          (/\ robot_clients[r] # NoLink
           /\ connected[robot_clients[r]]
           /\ AddRobot(c, r))
            => /\ cpc'[c] = "idle" /\ cres'[c] = "true"
               /\ link_robot' = link_robot
               /\ attempts' = attempts
               /\ robot_clients' = robot_clients]_vars

\* C19 witness: the first add_robot timed out and its link was given up; a
\* later one was confirmed and registered the second link, and both threads
\* have since had True from add_robot on that link, one of them for a link
\* that was already there
C19_Witness ==
  /\ add_failed = {1}
  /\ robot_clients[1] = 2
  /\ connected[2]
  /\ \A c \in Callers :
       cpc[c] = "idle" /\ cctx[c] = "add" /\ clink[c] = 2 /\ cres[c] = "true"

\* C20: under Spec, a start_patrol that is refused because the robot has an
\* entry in self.patrols, or because its link is missing or not connected,
\* changes nothing: self.patrols and every field of every PatrolManager are
\* as before, no PatrolManager is constructed, no worker starts, and no
\* command or completion is emitted.
C20_RefusedStartChangesNothing ==
  [][\A r \in Robots, link_ok \in BOOLEAN :
       (/\ regPc = "free"
        /\ AlreadyRunning(r) \/ ~link_ok
        /\ \/ StartPatrolRefused(r, link_ok)
           \/ \E rt \in RegistryRoutes : StartPatrol(r, rt, link_ok))
         => /\ sp_refused' # {}
            /\ UNCHANGED <<orchVars, confVars, workVars, regVars, wpGotos,
                           stopResults, stopCmds, completeEvents>>]_vars

\* C20 witness: start_patrol has been refused once for each reason, the
\* "already running" one while the first instance holds the entry and runs
C20_Witness ==
  /\ sp_refused = {"already_running", "not_connected"}
  /\ patrols[1] = 1
  /\ state[1] \in {"running", "waiting"}
  /\ robot_id[2] = 0

\* C21: under SpecPause, start() on a route without waypoints emits exactly
\* one error event, starts no worker and leaves the PatrolManager in the
\* Error state.
C21_EmptyRouteFails ==
  [][\A o \in OrchIds :
       error_events'[o] # error_events[o]
         => /\ error_events'[o] = error_events[o] + 1
            /\ wpc'[o] = "none"
            /\ state'[o] = "error"]_vars

\* C24: under SpecPause, from the return of a successful pause() until
\* resume() passes its check the worker publishes no waypoint goto (neither
\* the next waypoint's nor a retry) and finds no arrival timeout elapsed.
C24_NoGotoWhilePaused ==
  [][\A o \in OrchIds :
       PauseInForce(o)
         => /\ ~WaypointGoto(o)
            /\ ~(W_Wait(o) /\ wpc'[o] \in {"retry_goto", "exhaust"})]_vars

\* C25: under SpecPause, while a successful pause() is in force, no call
\* holds the lock and stop() has not been called, the state is Paused, so
\* that resume() is not refused.
C25_PausedCanResume ==
  \A o \in OrchIds :
    (PauseInForce(o) /\ apiPc[o] = "idle" /\ stopResults[o] = <<>>)
      => state[o] = "paused"

\* C26: under SpecOrch, no step of update_battery_level (with
\* _handle_low_battery) or of on_waypoint_event is taken while a stop()
\* call is inside its critical section, and no arrival event is handled
\* while a battery update is being handled.
C26_EventsSerialized ==
  [][\A o \in OrchIds :
       /\ apiPc[o] # "idle"
            => ~(\/ Arrival(o) \/ LowBattery(o)
                 \/ \E low \in BOOLEAN : BatteryUpdate(o, low))
       /\ evPc[o] # "idle" => ~Arrival(o)]_vars

C29_CompleteCurrentThenReturn ==
  \A o \in OrchIds :
    lb_preempt[o] = "deferred"
      => /\ completeEvents[o] = 0
         /\ wpc[o] \notin {"exec_goto", "fin_goto", "fin_idle", "fin_emit"}

\* C22: within one detection-gate invocation the configured response action
\* (speech, webview or video) is executed at most once, at the first poll
\* that observes a violation: however many later polls observe violations,
\* and also when its command failed to publish
C22_ActionOnce ==
  \A o \in OrchIds :
    wpc[o] \in {"gate", "gate_notes", "gate_emit"}
      => gate[o].actions =
           IF gate[o].violations_seen /\ route[o].violation_action # "none"
           THEN 1 ELSE 0

\* C22 witness: two polls of one invocation saw violations, the action was
\* executed once and its command failed to publish
C22_Witness ==
  /\ wpc[1] = "gate"
  /\ gate[1].seen_polls = 2
  /\ gate[1].actions = 1
  /\ gate[1].action_taken = "failed"

\* C23: every detection-gate invocation ends by emitting exactly one
\* waypoint summary, however it ended; the note has violations_detected
\* exactly if a poll of the invocation saw a violation, and timeout exactly
\* if the elapsed time had reached the detection timeout
C23_OneSummary ==
  \A o \in OrchIds :
    LET g == gate[o] IN
      /\ wpc[o] \in {"gate", "gate_notes", "gate_emit"} => g.summaries = 0
      /\ (g.ended_by # "none" /\ wpc[o] \notin {"gate_notes", "gate_emit"})
           => /\ g.summaries = 1
              /\ "violations_detected" \in g.notes <=> g.seen_polls > 0
              /\ "timeout" \in g.notes
                   <=> g.noted_at - g.start_time >= DetectionTimeout
              /\ g.ended_by = "timeout" => "timeout" \in g.notes

\* C23 witness: a gate that saw a violation and ended by the timeout has
\* emitted its summary with both notes
C23_Witness ==
  /\ gate[1].summaries = 1
  /\ gate[1].ended_by = "timeout"
  /\ gate[1].notes = {"violations_detected", "timeout"}
  /\ gate[1].noted_at - gate[1].start_time = DetectionTimeout

\* C23 witness, the other endings: a summary after the grace period and one
\* after a stop request
C23_WitnessEndings ==
  /\ gate[1].summaries = 1
  /\ gate[1].ended_by \in {"grace", "stop"}
  /\ gate[1].notes = {}

\* C30: when publishing a speech or display command of a waypoint's actions
\* fails, the waypoint is not aborted: the step goes on to the next action
\* or the dwell exactly as after a success, the state is left alone and
\* never becomes Error, and the worker does not take its error path
C30_FailedCommandContinues ==
  [][\A o \in OrchIds :
       /\ (wpc[o] \in {"tts", "display"} /\ wpc'[o] # wpc[o])
            => /\ wpc'[o] = NextStage(o, wpc[o])
               /\ state'[o] = state[o]
       /\ cmd_failed'[o]
            => /\ state'[o] # "error"
               /\ wpc'[o] \notin {"err_state", "err_emit", "errored"}]_vars

\* C30 witness: a command failed at the only waypoint, and the run went on
\* through the dwell to the end of the route and its completion event
C30_Witness ==
  /\ cmd_failed[1]
  /\ ~stop_requested[1]
  /\ current_waypoint_index[1] = 1
  /\ completeEvents[1] = 1
  /\ wpc[1] = "done"

\* C27: once stop() has set the stop flag, the run-loop worker, scheduled
\* fairly, terminates, wherever it was: held by a pause, waiting for an
\* arrival (between retries too), polling in the detection gate, dwelling
C27_StopTerminates ==
  \A o \in OrchIds : stop_requested[o] ~> wpc[o] \in {"done", "errored"}

\* C27 witness: a worker that was stopped while paused has terminated
C27_Witness ==
  /\ stop_requested[1]
  /\ is_paused[1]
  /\ state[1] = "stopped"
  /\ wpc[1] = "done"

\* C40: a connect() or ensure_connected() call that the throttle rejects
\* (another attempt in progress, or less than 2 seconds since the last
\* attempt) leaves the link as it was: the in-progress flag, the connected
\* flag, the last-attempt timestamp and the client
C40_RejectedCallChangesNothing ==
  [][\A c \in Callers, l \in Links :
       ((ConnectCall(c, l) \/ EnsureCall(c, l))
          /\ (connecting[l] \/ Throttled(now, last_connect_attempt[l]))
          /\ cres'[c] = "false" /\ cpc'[c] = "idle")
         => /\ connecting'[l] = connecting[l]
            /\ connected'[l] = connected[l]
            /\ last_connect_attempt'[l] = last_connect_attempt[l]
            /\ client'[l] = client[l]]_vars

\* C31: the Inspection Orchestrator publishes no waypoint goto until the
\* pipeline's liveness is established (a recent last message, or a signal
\* of the pipeline after the start command); with no signal within the
\* start timeout the run ends in Error with an error event and no waypoint
C31_PipelineGate ==
  /\ insp.gotos > 0 => (insp.recent \/ insp.signal)
  /\ (insp.pc = "done" /\ ~insp.recent /\ ~insp.signal
        /\ ~insp.stop_requested)
       => /\ insp.state = "error"
          /\ insp.error_events = 1
          /\ insp.gotos = 0

\* C32: after stop() on a running Inspection Orchestrator the run ends in
\* state Stopped: not Completed, no completion event, and the session is
\* not recorded as completed
C32_StopEndsStopped ==
  (insp.stopped_running /\ insp.pc = "done" /\ insp.state # "error")
    => /\ insp.state = "stopped"
       /\ insp.complete_events = 0
       /\ insp.session # "completed"

\* C33: after stop() on an Inspection Orchestrator no goto is published
\* and no waypoint inspection is started, also when the stop request comes
\* while the run is paused between two waypoints
C33_NoGotoAfterStop ==
  [][insp.stop_requested
       => /\ insp'.gotos = insp.gotos
          /\ insp'.inspections = insp.inspections]_vars

\* C34: at most one run-loop worker is alive per robot: when a successful
\* stop_patrol is followed by a successful start_patrol for the robot, the
\* worker of the previous PatrolManager has terminated
C34_OneWorkerPerRobot ==
  \A o1, o2 \in OrchIds :
    (o1 # o2 /\ robot_id[o1] # 0 /\ robot_id[o1] = robot_id[o2])
      => ~(/\ wpc[o1] \notin {"none", "done", "errored"}
           /\ wpc[o2] \notin {"none", "done", "errored"})

\* the worker is in the actions of the waypoint in progress
InActions(o) == wpc[o] \in {"tts", "display", "actions", "dwell_loop"}

\* the last waypoint event came during the waypoint in progress
EventOfWaypoint(o) ==
  /\ last_event[o].index = current_waypoint_index[o]
  /\ last_event[o].loop = current_loop[o]

\* C35: a waypoint's actions are executed only after an arrival event for
\* that waypoint's own goto: an event that names a different location does
\* not end the current waypoint's arrival wait
C35_OwnArrival ==
  \A o \in OrchIds :
    (InActions(o) /\ EventOfWaypoint(o)
       /\ EndsWait(last_event[o].event_type, last_event[o].status))
      => last_event[o].location = current_waypoint[o]

\* C36: a goto event with status abort or fail received during the arrival
\* wait emits an error event and is otherwise handled like an arrival: the
\* wait ends, no retry of the goto follows, the state is not Error, and the
\* worker goes on to the waypoint's actions and the next waypoint
C36_AbortLikeArrival ==
  \A o \in OrchIds :
    (last_event[o].status \in {"abort", "fail"} /\ last_event[o].in_wait)
      => /\ last_event[o].error
         /\ state[o] # "error"
         /\ EventOfWaypoint(o)
              => /\ ~waiting_for_arrival[o]
                 /\ wpc[o] \in {"wait", "after_wait", "tts", "display",
                                "actions", "dwell_loop", "chk_return",
                                "advance"}

\* C36 witness: the goto of the last waypoint was aborted during its wait,
\* without a retry, and the run went on to its natural completion
C36_Witness ==
  /\ last_event[1].status = "abort"
  /\ last_event[1].in_wait
  /\ last_event[1].index = MaxWaypoints - 1
  /\ retry_count[1] = 0
  /\ completeEvents[1] = 1
  /\ wpc[1] = "done"

\* no stop_patrol call has reached the instance: stop() was not called on it
\* and no stop_patrol call is about to call it
NoStopCalled(o) ==
  /\ stopResults[o] = <<>>
  /\ apiPc[o] = "idle"
  /\ ~ViaRegistry(o)

\* the worker of a run started by start_patrol has ended and no completion
\* event was emitted; with no stop() call, only a low-battery return
\* (stop_requested set by _handle_low_battery or after the current
\* waypoint) ends a worker this way
EndedByLowBattery(o) ==
  /\ on_complete[o] = "registry"
  /\ wpc[o] = "done"
  /\ stop_requested[o]
  /\ completeEvents[o] = 0
  /\ NoStopCalled(o)

C37_WitnessImmediate ==
  /\ low_battery_action = "stop_immediately"
  /\ EndedByLowBattery(1)
  /\ patrols[1] = 1

\* C39: a run that completes naturally is always removed from the registry,
\* even when its worker reaches the completion callback before start_patrol
\* has inserted the entry: the callback waits for the registry's lock, so an
\* instance is only ever inserted before its completion, and once its
\* completion event is out it is not registered.
C39_CompletedRunRemoved ==
  /\ [][\A o \in OrchIds :
         (robot_id[o] # 0 /\ patrols'[robot_id[o]] = o
            /\ patrols[robot_id[o]] # o)
           => completeEvents[o] = 0 /\ wpc[o] # "done"]_vars
  /\ [](\A o \in OrchIds :
         (on_complete[o] = "registry" /\ completeEvents[o] > 0)
           => /\ wpc[o] = "done"
              /\ patrols[robot_id[o]] # o)

\* C39 witness: the worker was at the completion callback when start_patrol
\* inserted its instance; the run has completed and the robot has no entry
C39_Witness ==
  /\ late_insert[1]
  /\ completeEvents[1] = 1
  /\ wpc[1] = "done"
  /\ patrols[1] = NoEntry
  /\ stopResults[1] = <<>>

\* C38: no interleaving of start_patrol, stop_patrol, pause, resume, event
\* delivery and a worker's completion callback deadlocks on the registry's
\* lock and a PatrolManager's lock. Every waiter gets its lock: a
\* stop_patrol call that holds the registry's lock and waits for the
\* instance's lock enters stop(); a completion callback that waits for the
\* registry's lock removes the entry and the worker ends; and each lock,
\* once held, is released, so that calls waiting to enter start_patrol,
\* stop_patrol, pause() or resume() find it free.
C38_NoLockDeadlock ==
  /\ \A o \in OrchIds : ViaRegistry(o) ~> ~ViaRegistry(o)
  /\ \A o \in OrchIds : (wpc[o] = "fin_emit") ~> (wpc[o] = "done")
  /\ (regPc # "free") ~> (regPc = "free")
  /\ \A o \in OrchIds : (apiPc[o] # "idle") ~> (apiPc[o] = "idle")

\* C38 witness: both locks are waited for at once: pause() or resume() is
\* inside the instance's lock, stop_patrol holds the registry's lock and
\* waits for the instance's, and the worker's completion callback waits for
\* the registry's
C38_Witness ==
  /\ regPc = "stop_call"
  /\ apiPc[regOrch] \in {"pause_state", "resume_state"}
  /\ wpc[regOrch] = "fin_emit"

====
